---- MODULE Spec2Model ----
(***************************************************************************)
(* The application of App: Login, Register, Dashboard, EntriesPage and     *)
(* SummariesPage under one router, over one localStorage.  fetchWithAuth   *)
(* is Dashboard's (EntriesPage and SummariesPage hold a copy of it, word   *)
(* for word); the credential store is written by fetchWithAuth, by         *)
(* Login.handleSubmit and by Dashboard.confirmLogout.                      *)
(*                                                                         *)
(* The host is a single-threaded event loop: every `await` is a suspension *)
(* point, and the code between two awaits runs atomically.  Each action    *)
(* below is one such atomic stretch of code.                               *)
(***************************************************************************)
EXTENDS Naturals, Sequences, FiniteSets, TLC

\* Number of fetchData runs that can be under way together.
NumLoads == 1

Loads == 1..NumLoads

\* The two calls a fetchData run starts together: one fetches today's
\* entries, the other today's summary.
EntriesCall(d) == 2 * d - 1
SummaryCall(d) == 2 * d
CallsOf(d) == {EntriesCall(d), SummaryCall(d)}
DataCalls == UNION {CallsOf(d) : d \in Loads}

\* Number of handleLogFood runs that can be under way together.
NumLogs == 1

Logs == 1..NumLogs

\* The call a handleLogFood run makes.
LogCall(j) == 2 * NumLoads + j
LogCalls == {LogCall(j) : j \in Logs}

\* Number of runs of EntriesPage's effect that can be under way together,
\* and of SummariesPage's.
NumVisits == 1

Visits == 1..NumVisits

\* The call a run of fetchEntries makes, and the call a run of
\* fetchSummaries makes.
FetchEntriesCall(v) == 2 * NumLoads + NumLogs + v
FetchSummariesCall(v) == 2 * NumLoads + NumLogs + NumVisits + v
FetchEntriesCalls == {FetchEntriesCall(v) : v \in Visits}
FetchSummariesCalls == {FetchSummariesCall(v) : v \in Visits}

\* Every call of fetchWithAuth: the model keeps parameters and locals for
\* each.
Slots == DataCalls \cup LogCalls \cup FetchEntriesCalls \cup FetchSummariesCalls

\* Number of runs of handlers that can be under way together in the
\* application, the calls they make included.
NumRunning == 1

\* Number of Register form submissions that can be under way together.
NumSubmits == 1

Submits == 1..NumSubmits

\* Number of Login form submissions that can be pending together.
NumLogins == 1

Logins == 1..NumLogins

-----------------------------------------------------------------------------
\* JavaScript values that reach the credential store: null, undefined or a
\* string.

Null == [isNull |-> TRUE, isUndefined |-> FALSE, str |-> ""]
Undefined == [isNull |-> FALSE, isUndefined |-> TRUE, str |-> ""]
Str(s) == [isNull |-> FALSE, isUndefined |-> FALSE, str |-> s]

\* What a body that is the JSON text `null` parses to.
JsonNull == [isNull |-> TRUE]

\* String(v), as applied by template literals and by localStorage.setItem.
String(v) ==
  IF v.isNull THEN "null" ELSE IF v.isUndefined THEN "undefined" ELSE v.str

\* A presence test against undefined only.
NotUndefined(v) == ~v.isUndefined

\* JavaScript truthiness of a null, undefined or string value (`!refresh`).
Truthy(v) == ~v.isNull /\ ~v.isUndefined /\ v.str # ""

\* The characters of a string literal that JSON.stringify escapes, as far as
\* a TLA+ string can hold them.
RECURSIVE JsonEscape(_)
JsonEscape(s) ==
  IF s = "" THEN ""
  ELSE LET ch == SubSeq(s, 1, 1)
           out == IF ch = "\"" THEN "\\\""
                  ELSE IF ch = "\\" THEN "\\\\"
                  ELSE IF ch = "\n" THEN "\\n"
                  ELSE IF ch = "\r" THEN "\\r"
                  ELSE IF ch = "\t" THEN "\\t"
                  ELSE IF ch = "\f" THEN "\\f"
                  ELSE ch
       IN out \o JsonEscape(SubSeq(s, 2, Len(s)))

\* JSON.stringify({ [key]: v }) for a null, undefined or string v: a member
\* whose value is undefined is left out.
JsonMember(key, v) ==
  IF v.isUndefined THEN "{}"
  ELSE "{\"" \o JsonEscape(key) \o "\":"
         \o (IF v.isNull THEN "null" ELSE "\"" \o JsonEscape(v.str) \o "\"")
         \o "}"

\* Object spread { ...a, ...b }: keys of b override keys of a.
Spread(a, b) ==
  [k \in (DOMAIN a) \cup (DOMAIN b) |-> IF k \in DOMAIN b THEN b[k] ELSE a[k]]

EmptyObject == [k \in {} |-> ""]

-----------------------------------------------------------------------------
\* localStorage with the two keys the application uses.

Keys == {"access", "refresh"}

EmptyStore == [k \in Keys |-> Null]

getItem(s, k) == s[k]
setItem(s, k, v) == [s EXCEPT ![k] = Str(String(v))]
removeItem(s, k) == [s EXCEPT ![k] = Null]

-----------------------------------------------------------------------------
\* The remote API, seen from the client.

RefreshUrl == "http://127.0.0.1:8000/api/token/refresh/"

\* Statuses a protected endpoint may answer with.
Statuses == {200, 401, 500}
\* Statuses the refresh endpoint may answer with.
RefreshStatuses == {200, 401}
\* Credentials the token endpoint hands out on login.
LoginAccess == {"old"}
LoginRefresh == {"r1"}
\* What the body of an ok refresh response parses to: null, or a value whose
\* `access` member is a credential or absent (undefined).
WithAccess(v) == [isNull |-> FALSE, access |-> v]
RefreshBodies == {WithAccess(Str("new")), WithAccess(Undefined), JsonNull}
\* Messages of the SyntaxError a body that is not JSON makes json() reject
\* with.
SyntaxErrors == {"Unexpected token 'o', \"oops\" is not valid JSON"}
\* What the user types into the food field.
FoodNames == {"egg"}

\* Response.ok
Ok(status) == status >= 200 /\ status <= 299

Response(of, status) == [of |-> of, status |-> status]
NoResponse == Response("none", 0)

\* The Error an await rejects with: `at` names the await.
NoError == [name |-> "", message |-> "", at |-> "none"]
\* fetch() rejects with a TypeError (message as in Chromium).
FetchError(kind) == [name |-> "TypeError", message |-> "Failed to fetch", at |-> kind]
\* Reading a member of null throws a TypeError (message as in Chromium).
NullMessage(member) ==
  "Cannot read properties of null (reading '" \o member \o "')"
MemberError(member) ==
  [name |-> "TypeError", message |-> NullMessage(member), at |-> "member"]

LogFoodUrl == "http://127.0.0.1:8000/api/log-food/"

\* The options handleLogFood passes for the food the user typed.
LogFoodOptions(foodName) ==
  [method |-> "POST",
   headers |-> ("Content-Type" :> "application/json"),
   body |-> JsonMember("query", Str(foodName))]

\* options.headers, or nothing to spread when the caller gave none.
OptionHeaders(options) ==
  IF "headers" \in DOMAIN options THEN options.headers ELSE EmptyObject

\* The headers of a protected request carrying credential `cred`.
AuthHeaders(options, cred) ==
  Spread(Spread(("Content-Type" :> "application/json"), OptionHeaders(options)),
         ("Authorization" :> ("Bearer " \o String(cred))))

\* A variant that spreads the caller's options last, over the merged
\* headers.
AuthInitOptionsLast(options, cred) ==
  Spread([headers |-> AuthHeaders(options, cred)], options)

\* The second argument of fetch for a protected request.
AuthInit(options, cred) ==
  Spread(options, [headers |-> AuthHeaders(options, cred)])

\* The second argument of fetch for the refresh call.
RefreshInit(refresh) ==
  [method |-> "POST",
   headers |-> ("Content-Type" :> "application/json"),
   body |-> JsonMember("refresh", refresh)]

-----------------------------------------------------------------------------
\* Observable effects of a call, in program order.

\* kind is "initial", "refresh" or "retry": which of the three fetch calls.

\* fetch(u, init) was called.
FetchEvent(kind, u, init) ==
  [op |-> "fetch", kind |-> kind, url |-> u, init |-> init,
   status |-> 0, key |-> "", value |-> "", to |-> ""]
\* The awaited fetch resolved with a response of this status.
ResponseEvent(kind, status) ==
  [op |-> "response", kind |-> kind, url |-> "", init |-> EmptyObject,
   status |-> status, key |-> "", value |-> "", to |-> ""]
\* The awaited fetch rejected (transport failure).
FailureEvent(kind) ==
  [op |-> "failure", kind |-> kind, url |-> "", init |-> EmptyObject,
   status |-> 0, key |-> "", value |-> "", to |-> ""]
\* localStorage.setItem(k, v) was called.
SetItemEvent(k, v) ==
  [op |-> "setItem", kind |-> "", url |-> "", init |-> EmptyObject,
   status |-> 0, key |-> k, value |-> String(v), to |-> ""]
\* navigate(path) was called.
NavigateEvent(path) ==
  [op |-> "navigate", kind |-> "", url |-> "", init |-> EmptyObject,
   status |-> 0, key |-> "", value |-> "", to |-> path]

-----------------------------------------------------------------------------
VARIABLES
  store,       \* localStorage
  location,    \* the route the router is at
  rendered,    \* the application's tree is mounted: no render has thrown
  pc,          \* per call: where the call is suspended, or how it ended
  url,         \* per call: argument `url`
  options,     \* per call: argument `options`
  token,       \* per call: local `token`
  res,         \* per call: local `res`
  refresh,     \* per call: local `refresh`
  refreshRes,  \* per call: local `refreshRes`
  data,        \* per call: local `data` (its `access` member)
  ret,         \* per call: the response the call resolved with
  err,         \* per call: the Error the call rejected with
  events,      \* per call: fetch / setItem / navigate performed, in order
  lastWriter,  \* who wrote the "access" key last
  loginPc,     \* per submission: where Login.handleSubmit is suspended
  loginLive,   \* per submission: the Login that made it is still mounted
  loginError,  \* Login's `error` state
  dataPc,      \* per run: where Dashboard.fetchData is suspended
  dataLive,    \* per run: the Dashboard that made it is still mounted
  entriesRes,  \* per run: fetchData's local `entriesRes`
  summaryRes,  \* per run: fetchData's local `summaryRes`
  entriesData, \* per run: fetchData's local `entriesData`
  logPc,       \* per run: where Dashboard.handleLogFood is suspended
  logLive,     \* per run: the Dashboard that made it is still mounted
  foodItems,   \* Dashboard's `foodItems` state
  todaySummary,\* Dashboard's `todaySummary` state
  error,       \* Dashboard's `error` state
  mounting,    \* the page shown was mounted and its effect has not run yet
  fetchEntriesPc,     \* per run: where EntriesPage's fetchEntries is suspended
  fetchEntriesLive,   \* per run: the EntriesPage that made it is still mounted
  entriesFoodItems,   \* EntriesPage's `foodItems` state
  entriesError,       \* EntriesPage's `error` state
  fetchSummariesPc,   \* per run: where SummariesPage's fetchSummaries is suspended
  fetchSummariesLive, \* per run: the SummariesPage that made it is still mounted
  summaries,          \* SummariesPage's `summaries` state
  summariesError,     \* SummariesPage's `error` state
  regPc,       \* per submission: where Register.handleSubmit is suspended
  regLive,     \* per submission: the Register that made it is still mounted
  regRes,      \* per submission: status of the local `res`
  regError,    \* Register's `error` state
  regSuccess   \* Register's `success` state

callVars == <<pc, url, options, token, res, refresh, refreshRes, data, ret, err, events>>
loginVars == <<loginPc, loginLive, loginError>>
dataVars == <<dataPc, dataLive, entriesRes, summaryRes, entriesData, logPc,
              logLive, foodItems,
              todaySummary, error, mounting>>
entriesVars == <<fetchEntriesPc, fetchEntriesLive, entriesFoodItems, entriesError>>
summariesVars == <<fetchSummariesPc, fetchSummariesLive, summaries, summariesError>>
regVars == <<regPc, regLive, regRes, regError, regSuccess>>
vars == <<store, location, rendered, callVars, lastWriter, loginVars, dataVars,
          entriesVars, summariesVars, regVars>>

\* Where the handlers' runs are suspended, and their locals.
handlers == <<loginPc, dataPc, entriesRes, summaryRes, entriesData, logPc,
              fetchEntriesPc, fetchSummariesPc, regPc, regRes>>
\* The state of the mounted components, and which runs belong to them.
views == <<rendered, loginLive, loginError, dataLive, logLive, foodItems,
           todaySummary, error, mounting, fetchEntriesLive, entriesFoodItems,
           entriesError, fetchSummariesLive, summaries, summariesError, regLive,
           regError, regSuccess>>

\* A JavaScript array.
Array(items) ==
  [isNull |-> FALSE, isArray |-> TRUE, isText |-> FALSE, items |-> items,
   hasResults |-> FALSE, results |-> <<>>]
\* An object that is no array, with a `results` array or without one.
Page(results) ==
  [isNull |-> FALSE, isArray |-> FALSE, isText |-> FALSE, items |-> <<>>,
   hasResults |-> TRUE, results |-> results]
PlainObject ==
  [isNull |-> FALSE, isArray |-> FALSE, isText |-> FALSE, items |-> <<>>,
   hasResults |-> FALSE, results |-> <<>>]
\* A string, by its characters: it has `length` and `slice`, and no `map`.
Text(chars) ==
  [isNull |-> FALSE, isArray |-> FALSE, isText |-> TRUE, items |-> chars,
   hasResults |-> FALSE, results |-> <<>>]

\* An entry of the entries endpoint: with a numeric `calories`, or without.
Entry(name, hasCalories) ==
  [isNull |-> FALSE, name |-> name, hasCalories |-> hasCalories]

\* A day of the daily summaries endpoint: its totals are numbers, absent, or
\* strings.
Day(date, totals) == [isNull |-> FALSE, date |-> date, totals |-> totals]

\* A summary object with the four totals the Dashboard prints.
Totals == [isNull |-> FALSE, hasTotals |-> TRUE]

\* No entries: useState([]).
NoEntries == Array(<<>>)

\* Dashboard's useState initial values; nothing of it is running.
InitData ==
  /\ dataPc = [d \in Loads |-> "idle"]
  /\ dataLive = [d \in Loads |-> FALSE]
  /\ entriesRes = [d \in Loads |-> NoResponse]
  /\ summaryRes = [d \in Loads |-> NoResponse]
  /\ entriesData = [d \in Loads |-> NoEntries]
  /\ logPc = [j \in Logs |-> "idle"]
  /\ logLive = [j \in Logs |-> FALSE]
  /\ foodItems = NoEntries
  /\ todaySummary = JsonNull
  /\ error = ""
  /\ mounting = FALSE

\* EntriesPage's useState initial values; nothing of it is running.
InitEntries ==
  /\ fetchEntriesPc = [v \in Visits |-> "idle"]
  /\ fetchEntriesLive = [v \in Visits |-> FALSE]
  /\ entriesFoodItems = NoEntries
  /\ entriesError = ""

\* SummariesPage's useState initial values; nothing of it is running.
InitSummaries ==
  /\ fetchSummariesPc = [v \in Visits |-> "idle"]
  /\ fetchSummariesLive = [v \in Visits |-> FALSE]
  /\ summaries = NoEntries
  /\ summariesError = ""

\* Register's useState initial values; nothing submitted.
InitRegister ==
  /\ regPc = [i \in Submits |-> "idle"]
  /\ regLive = [i \in Submits |-> FALSE]
  /\ regRes = [i \in Submits |-> 0]
  /\ regError = ""
  /\ regSuccess = ""

\* Login's useState initial value; nothing submitted.
InitLogin ==
  /\ loginPc = [i \in Logins |-> "idle"]
  /\ loginLive = [i \in Logins |-> FALSE]
  /\ loginError = ""

InitCalls ==
  /\ pc = [c \in Slots |-> "idle"]
  /\ url = [c \in Slots |-> ""]
  /\ options = [c \in Slots |-> EmptyObject]
  /\ token = [c \in Slots |-> Null]
  /\ res = [c \in Slots |-> NoResponse]
  /\ refresh = [c \in Slots |-> Null]
  /\ refreshRes = [c \in Slots |-> NoResponse]
  /\ data = [c \in Slots |-> Null]
  /\ ret = [c \in Slots |-> NoResponse]
  /\ err = [c \in Slots |-> NoError]
  /\ events = [c \in Slots |-> <<>>]

\* The application was opened at the login view.
Init ==
  /\ store = EmptyStore
  /\ location = "/"
  /\ rendered = TRUE
  /\ InitCalls
  /\ lastWriter = [who |-> "none", id |-> 0]
  /\ InitLogin
  /\ InitData
  /\ InitEntries
  /\ InitSummaries
  /\ InitRegister

-----------------------------------------------------------------------------
\* The router: navigate(to) unmounts the component of the route shown and
\* mounts the one of `to`, unless `to` is the route shown already.  The state
\* of an unmounted component is gone, and the runs of its handlers that are
\* still suspended go on without it: their setState calls do nothing.  Once
\* a render has thrown nothing is mounted any more: navigate(to) changes the
\* route and shows nothing.

RegisterRoute == "/register"

Routes == {"/", RegisterRoute, "/entries", "/dashboard", "/summaries"}

\* The routes whose component runs an effect when it is mounted.
EffectRoutes == {"/entries", "/dashboard", "/summaries"}

\* The component of this route is shown.
Shows(path) == rendered /\ location = path

Leaves(path, to) == Shows(path) /\ to # path

Navigate(to) ==
  /\ location' = to
  /\ UNCHANGED rendered
  /\ IF Leaves("/", to)
       THEN /\ loginLive' = [i \in Logins |-> FALSE]
            /\ loginError' = ""
       ELSE UNCHANGED <<loginLive, loginError>>
  /\ IF Leaves("/dashboard", to)
       THEN /\ dataLive' = [d \in Loads |-> FALSE]
            /\ logLive' = [j \in Logs |-> FALSE]
            /\ foodItems' = NoEntries
            /\ todaySummary' = JsonNull
            /\ error' = ""
       ELSE UNCHANGED <<dataLive, logLive, foodItems, todaySummary, error>>
  /\ IF Leaves("/entries", to)
       THEN /\ fetchEntriesLive' = [v \in Visits |-> FALSE]
            /\ entriesFoodItems' = NoEntries
            /\ entriesError' = ""
       ELSE UNCHANGED <<fetchEntriesLive, entriesFoodItems, entriesError>>
  /\ IF Leaves("/summaries", to)
       THEN /\ fetchSummariesLive' = [v \in Visits |-> FALSE]
            /\ summaries' = NoEntries
            /\ summariesError' = ""
       ELSE UNCHANGED <<fetchSummariesLive, summaries, summariesError>>
  /\ mounting' = IF ~rendered \/ to = location THEN mounting
                 ELSE to \in EffectRoutes
  /\ IF Leaves(RegisterRoute, to)
       THEN /\ regLive' = [i \in Submits |-> FALSE]
            /\ regError' = ""
            /\ regSuccess' = ""
       ELSE UNCHANGED <<regLive, regError, regSuccess>>

\* No navigation, and no component state set.
Stay == UNCHANGED <<location, views>>

-----------------------------------------------------------------------------
\* fetchWithAuth

\* A call that completed.
Settled(c) == pc[c] \in {"resolved", "rejected"}

\* A call that was made and has not completed.
InFlight(c) == pc[c] \notin {"idle", "resolved", "rejected"}

\* A step of a call touches no handler's run and is no write of its own,
\* unless it says so.
RestUnchanged == UNCHANGED <<lastWriter, handlers>>

\* A status test that takes every error status for an expired credential.
UnauthorizedAnyError(r) == r.status >= 400

\* `res.status === 401`
Unauthorized(r) == r.status = 401

\* A variant whose new activations use the credential their slot used before
\* instead of reading the store.
ActivateCachedToken(rqs, over) ==
  LET On(c) == c \in DOMAIN rqs
      Off(c) == c \in over
  IN
    /\ token' = [c \in Slots |-> IF On(c) \/ ~Off(c) THEN token[c] ELSE Null]
    /\ events' = [c \in Slots |->
                    IF On(c)
                      THEN <<FetchEvent("initial", rqs[c].url,
                                        AuthInit(rqs[c].options, token[c]))>>
                      ELSE IF Off(c) THEN <<>> ELSE events[c]]
    /\ url' = [c \in Slots |->
                 IF On(c) THEN rqs[c].url ELSE IF Off(c) THEN "" ELSE url[c]]
    /\ options' = [c \in Slots |->
                     IF On(c) THEN rqs[c].options
                     ELSE IF Off(c) THEN EmptyObject ELSE options[c]]
    /\ pc' = [c \in Slots |->
                IF On(c) THEN "fetch1" ELSE IF Off(c) THEN "idle" ELSE pc[c]]
    /\ res' = [c \in Slots |-> IF On(c) \/ Off(c) THEN NoResponse ELSE res[c]]
    /\ refresh' = [c \in Slots |-> IF On(c) \/ Off(c) THEN Null ELSE refresh[c]]
    /\ refreshRes' = [c \in Slots |->
                        IF On(c) \/ Off(c) THEN NoResponse ELSE refreshRes[c]]
    /\ data' = [c \in Slots |-> IF On(c) \/ Off(c) THEN Null ELSE data[c]]
    /\ ret' = [c \in Slots |-> IF On(c) \/ Off(c) THEN NoResponse ELSE ret[c]]
    /\ err' = [c \in Slots |-> IF On(c) \/ Off(c) THEN NoError ELSE err[c]]

\* A variant whose new activations return at once, without a request, when
\* the store holds no access credential.
ActivateRequiresToken(rqs, over) ==
  LET On(c) == c \in DOMAIN rqs
      Off(c) == c \in over
      t == getItem(store, "access")
  IN
    /\ token' = [c \in Slots |->
                   IF On(c) THEN t ELSE IF Off(c) THEN Null ELSE token[c]]
    /\ events' = [c \in Slots |->
                    IF On(c)
                      THEN (IF Truthy(t)
                              THEN <<FetchEvent("initial", rqs[c].url,
                                                AuthInit(rqs[c].options, t))>>
                              ELSE <<>>)
                      ELSE IF Off(c) THEN <<>> ELSE events[c]]
    /\ url' = [c \in Slots |->
                 IF On(c) THEN rqs[c].url ELSE IF Off(c) THEN "" ELSE url[c]]
    /\ options' = [c \in Slots |->
                     IF On(c) THEN rqs[c].options
                     ELSE IF Off(c) THEN EmptyObject ELSE options[c]]
    /\ pc' = [c \in Slots |->
                IF On(c) THEN (IF Truthy(t) THEN "fetch1" ELSE "resolved")
                ELSE IF Off(c) THEN "idle" ELSE pc[c]]
    /\ res' = [c \in Slots |-> IF On(c) \/ Off(c) THEN NoResponse ELSE res[c]]
    /\ refresh' = [c \in Slots |-> IF On(c) \/ Off(c) THEN Null ELSE refresh[c]]
    /\ refreshRes' = [c \in Slots |->
                        IF On(c) \/ Off(c) THEN NoResponse ELSE refreshRes[c]]
    /\ data' = [c \in Slots |-> IF On(c) \/ Off(c) THEN Null ELSE data[c]]
    /\ ret' = [c \in Slots |-> IF On(c) \/ Off(c) THEN NoResponse ELSE ret[c]]
    /\ err' = [c \in Slots |-> IF On(c) \/ Off(c) THEN NoError ELSE err[c]]

\* Lines 18-28, on the calls' side: fetchWithAuth is called once for each
\* slot of rqs, one call after the other with nothing in between; each new
\* activation reads the access credential and issues its request.  The
\* calls in `over` returned to a caller that is done with them: nothing of
\* them is left.
Activate(rqs, over) ==
  LET On(c) == c \in DOMAIN rqs
      Off(c) == c \in over
      t == getItem(store, "access")
  IN
    /\ token' = [c \in Slots |->
                   IF On(c) THEN t ELSE IF Off(c) THEN Null ELSE token[c]]
    /\ events' = [c \in Slots |->
                    IF On(c)
                      THEN <<FetchEvent("initial", rqs[c].url,
                                        AuthInit(rqs[c].options, t))>>
                      ELSE IF Off(c) THEN <<>> ELSE events[c]]
    /\ url' = [c \in Slots |->
                 IF On(c) THEN rqs[c].url ELSE IF Off(c) THEN "" ELSE url[c]]
    /\ options' = [c \in Slots |->
                     IF On(c) THEN rqs[c].options
                     ELSE IF Off(c) THEN EmptyObject ELSE options[c]]
    /\ pc' = [c \in Slots |->
                IF On(c) THEN "fetch1" ELSE IF Off(c) THEN "idle" ELSE pc[c]]
    /\ res' = [c \in Slots |-> IF On(c) \/ Off(c) THEN NoResponse ELSE res[c]]
    /\ refresh' = [c \in Slots |-> IF On(c) \/ Off(c) THEN Null ELSE refresh[c]]
    /\ refreshRes' = [c \in Slots |->
                        IF On(c) \/ Off(c) THEN NoResponse ELSE refreshRes[c]]
    /\ data' = [c \in Slots |-> IF On(c) \/ Off(c) THEN Null ELSE data[c]]
    /\ ret' = [c \in Slots |-> IF On(c) \/ Off(c) THEN NoResponse ELSE ret[c]]
    /\ err' = [c \in Slots |-> IF On(c) \/ Off(c) THEN NoError ELSE err[c]]

\* No request: a function with no slot.
NoRequests == [c \in {} |-> [url |-> "", options |-> EmptyObject]]

\* One call, in slot c.
Invoke(c, rq) == Activate(c :> rq, {})

\* The callers of these calls are done with them.
Release(over) == Activate(NoRequests, over)

\* A variant that catches the failure of the first fetch and redirects.
InitialFailsCaught(c) ==
  /\ pc[c] = "fetch1"
  /\ events' = [events EXCEPT ![c] =
                  Append(Append(@, FailureEvent("initial")), NavigateEvent("/"))]
  /\ Navigate("/")
  /\ pc' = [pc EXCEPT ![c] = "resolved"]
  /\ ret' = [ret EXCEPT ![c] = Response("initial", 0)]
  /\ UNCHANGED <<store, url, options, token, res, refresh, refreshRes, data, err>>
  /\ RestUnchanged

\* Line 21 rejects: the failure leaves fetchWithAuth through the await.
InitialFails(c) ==
  /\ pc[c] = "fetch1"
  /\ events' = [events EXCEPT ![c] = Append(@, FailureEvent("initial"))]
  /\ pc' = [pc EXCEPT ![c] = "rejected"]
  /\ err' = [err EXCEPT ![c] = FetchError("initial")]
  /\ UNCHANGED <<store, url, options, token, res, refresh, refreshRes, data, ret>>
  /\ Stay
  /\ RestUnchanged

\* Lines 21, 30-44 and 63: the first fetch resolved.
InitialResponds(c, status) ==
  /\ pc[c] = "fetch1"
  /\ LET r == Response("initial", status)
         rf == getItem(store, "refresh")
         answered == Append(events[c], ResponseEvent("initial", status))
     IN
       /\ res' = [res EXCEPT ![c] = r]
       /\ IF ~Unauthorized(r)
            THEN /\ pc' = [pc EXCEPT ![c] = "resolved"]
                 /\ ret' = [ret EXCEPT ![c] = r]
                 /\ events' = [events EXCEPT ![c] = answered]
                 /\ UNCHANGED refresh
                 /\ Stay
            ELSE /\ refresh' = [refresh EXCEPT ![c] = rf]
                 /\ IF ~Truthy(rf)
                      THEN /\ events' = [events EXCEPT ![c] =
                                           Append(answered, NavigateEvent("/"))]
                           /\ Navigate("/")
                           /\ pc' = [pc EXCEPT ![c] = "resolved"]
                           /\ ret' = [ret EXCEPT ![c] = r]
                      ELSE /\ events' = [events EXCEPT ![c] =
                                           Append(answered,
                                                  FetchEvent("refresh", RefreshUrl,
                                                             RefreshInit(rf)))]
                           /\ pc' = [pc EXCEPT ![c] = "refreshing"]
                           /\ UNCHANGED ret
                           /\ Stay
  /\ UNCHANGED <<store, url, options, token, refreshRes, data, err>>
  /\ RestUnchanged

\* Line 37 rejects: nothing in fetchWithAuth catches it.
RefreshFails(c) ==
  /\ pc[c] = "refreshing"
  /\ events' = [events EXCEPT ![c] = Append(@, FailureEvent("refresh"))]
  /\ pc' = [pc EXCEPT ![c] = "rejected"]
  /\ err' = [err EXCEPT ![c] = FetchError("refresh")]
  /\ UNCHANGED <<store, url, options, token, res, refresh, refreshRes, data, ret>>
  /\ Stay
  /\ RestUnchanged

\* A variant whose failure branch hands back the refresh endpoint's response.
RefreshRespondsReturnsRefreshRes(c, status) ==
  /\ pc[c] = "refreshing"
  /\ LET rr == Response("refresh", status)
         answered == Append(events[c], ResponseEvent("refresh", status))
     IN
       /\ refreshRes' = [refreshRes EXCEPT ![c] = rr]
       /\ IF Ok(rr.status)
            THEN /\ pc' = [pc EXCEPT ![c] = "json"]
                 /\ events' = [events EXCEPT ![c] = answered]
                 /\ UNCHANGED ret
                 /\ Stay
            ELSE /\ events' = [events EXCEPT ![c] =
                                 Append(answered, NavigateEvent("/"))]
                 /\ Navigate("/")
                 /\ pc' = [pc EXCEPT ![c] = "resolved"]
                 /\ ret' = [ret EXCEPT ![c] = rr]
  /\ UNCHANGED <<store, url, options, token, res, refresh, data, err>>
  /\ RestUnchanged

\* Lines 37, 46-47 and 58-63: the refresh fetch resolved.
RefreshResponds(c, status) ==
  /\ pc[c] = "refreshing"
  /\ LET rr == Response("refresh", status)
         answered == Append(events[c], ResponseEvent("refresh", status))
     IN
       /\ refreshRes' = [refreshRes EXCEPT ![c] = rr]
       /\ IF Ok(rr.status)
            THEN /\ pc' = [pc EXCEPT ![c] = "json"]
                 /\ events' = [events EXCEPT ![c] = answered]
                 /\ UNCHANGED ret
                 /\ Stay
            ELSE /\ events' = [events EXCEPT ![c] =
                                 Append(answered, NavigateEvent("/"))]
                 /\ Navigate("/")
                 /\ pc' = [pc EXCEPT ![c] = "resolved"]
                 /\ ret' = [ret EXCEPT ![c] = res[c]]
  /\ UNCHANGED <<store, url, options, token, res, refresh, data, err>>
  /\ RestUnchanged

\* Line 47 rejects: the body of the ok refresh response is not JSON, and
\* nothing in fetchWithAuth catches the SyntaxError.
RefreshParseFails(c, msg) ==
  /\ pc[c] = "json"
  /\ pc' = [pc EXCEPT ![c] = "rejected"]
  /\ err' = [err EXCEPT ![c] = [name |-> "SyntaxError", message |-> msg,
                               at |-> "json"]]
  /\ UNCHANGED <<store, url, options, token, res, refresh, refreshRes, data, ret,
                 events>>
  /\ Stay
  /\ RestUnchanged

\* Line 48 throws: `data` is null, so `data.access` is a TypeError that
\* nothing in fetchWithAuth catches.  Nothing is stored and nothing retried.
AccessThrows(c) ==
  /\ pc' = [pc EXCEPT ![c] = "rejected"]
  /\ err' = [err EXCEPT ![c] = MemberError("access")]
  /\ UNCHANGED <<store, lastWriter, data, events>>

\* A variant that retries with the credential read when the call started.
RefreshParsedStaleToken(c, body) ==
  /\ pc[c] = "json"
  /\ IF body.isNull
       THEN AccessThrows(c)
       ELSE /\ data' = [data EXCEPT ![c] = body.access]
            /\ store' = setItem(store, "access", body.access)
            /\ events' = [events EXCEPT ![c] =
                            Append(Append(@, SetItemEvent("access", body.access)),
                                   FetchEvent("retry", url[c],
                                              AuthInit(options[c], token[c])))]
            /\ lastWriter' = [who |-> "call", id |-> c]
            /\ pc' = [pc EXCEPT ![c] = "fetch2"]
            /\ UNCHANGED err
  /\ UNCHANGED <<url, options, token, res, refresh, refreshRes, ret, handlers>>
  /\ Stay

\* A variant that persists the new credential only when nobody replaced the
\* stored one since the call started, and retries with whatever is stored.
RefreshParsedFirstWriteWins(c, body) ==
  /\ pc[c] = "json"
  /\ IF body.isNull
       THEN AccessThrows(c)
       ELSE LET mine == getItem(store, "access") = token[c]
                cred == IF mine THEN body.access ELSE getItem(store, "access")
            IN
              /\ data' = [data EXCEPT ![c] = body.access]
              /\ store' = IF mine THEN setItem(store, "access", body.access)
                                  ELSE store
              /\ lastWriter' = IF mine THEN [who |-> "call", id |-> c]
                                       ELSE lastWriter
              /\ events' = [events EXCEPT ![c] =
                              Append(IF mine
                                       THEN Append(@, SetItemEvent("access",
                                                                   body.access))
                                       ELSE @,
                                     FetchEvent("retry", url[c],
                                                AuthInit(options[c], cred)))]
              /\ pc' = [pc EXCEPT ![c] = "fetch2"]
              /\ UNCHANGED err
  /\ UNCHANGED <<url, options, token, res, refresh, refreshRes, ret, handlers>>
  /\ Stay

\* A variant that also stores data.refresh, which the endpoint does not send.
RefreshParsedRotatesRefresh(c, body) ==
  /\ pc[c] = "json"
  /\ IF body.isNull
       THEN AccessThrows(c)
       ELSE /\ data' = [data EXCEPT ![c] = body.access]
            /\ store' = setItem(setItem(store, "access", body.access),
                                "refresh", Undefined)
            /\ events' = [events EXCEPT ![c] =
                            Append(Append(@, SetItemEvent("access", body.access)),
                                   FetchEvent("retry", url[c],
                                              AuthInit(options[c], body.access)))]
            /\ lastWriter' = [who |-> "call", id |-> c]
            /\ pc' = [pc EXCEPT ![c] = "fetch2"]
            /\ UNCHANGED err
  /\ UNCHANGED <<url, options, token, res, refresh, refreshRes, ret, handlers>>
  /\ Stay

\* Lines 47-57: the refresh body was parsed.  `data.access` is persisted and
\* the request retried with it; where `data` is null, line 48 throws.
RefreshParsed(c, body) ==
  /\ pc[c] = "json"
  /\ IF body.isNull
       THEN AccessThrows(c)
       ELSE /\ data' = [data EXCEPT ![c] = body.access]
            /\ store' = setItem(store, "access", body.access)
            /\ events' = [events EXCEPT ![c] =
                            Append(Append(@, SetItemEvent("access", body.access)),
                                   FetchEvent("retry", url[c],
                                              AuthInit(options[c], body.access)))]
            /\ lastWriter' = [who |-> "call", id |-> c]
            /\ pc' = [pc EXCEPT ![c] = "fetch2"]
            /\ UNCHANGED err
  /\ UNCHANGED <<url, options, token, res, refresh, refreshRes, ret, handlers>>
  /\ Stay

\* Line 50 rejects.
RetryFails(c) ==
  /\ pc[c] = "fetch2"
  /\ events' = [events EXCEPT ![c] = Append(@, FailureEvent("retry"))]
  /\ pc' = [pc EXCEPT ![c] = "rejected"]
  /\ err' = [err EXCEPT ![c] = FetchError("retry")]
  /\ UNCHANGED <<store, url, options, token, res, refresh, refreshRes, data, ret>>
  /\ Stay
  /\ RestUnchanged

\* A variant that treats a 401 of the retry like the first one: refresh again.
RetryRespondsRefreshAgain(c, status) ==
  /\ pc[c] = "fetch2"
  /\ LET r == Response("retry", status)
         answered == Append(events[c], ResponseEvent("retry", status))
     IN
       /\ res' = [res EXCEPT ![c] = r]
       /\ IF Unauthorized(r)
            THEN /\ events' = [events EXCEPT ![c] =
                                 Append(answered,
                                        FetchEvent("refresh", RefreshUrl,
                                                   RefreshInit(refresh[c])))]
                 /\ pc' = [pc EXCEPT ![c] = "refreshing"]
                 /\ UNCHANGED ret
            ELSE /\ events' = [events EXCEPT ![c] = answered]
                 /\ ret' = [ret EXCEPT ![c] = r]
                 /\ pc' = [pc EXCEPT ![c] = "resolved"]
  /\ UNCHANGED <<store, url, options, token, refresh, refreshRes, data, err>>
  /\ Stay
  /\ RestUnchanged

\* A variant that redirects to the login view when the retry is still a 401.
RetryRespondsRedirects(c, status) ==
  /\ pc[c] = "fetch2"
  /\ LET r == Response("retry", status)
         answered == Append(events[c], ResponseEvent("retry", status))
     IN
       /\ res' = [res EXCEPT ![c] = r]
       /\ ret' = [ret EXCEPT ![c] = r]
       /\ IF Unauthorized(r)
            THEN /\ events' = [events EXCEPT ![c] =
                                 Append(answered, NavigateEvent("/"))]
                 /\ Navigate("/")
            ELSE /\ events' = [events EXCEPT ![c] = answered]
                 /\ Stay
  /\ pc' = [pc EXCEPT ![c] = "resolved"]
  /\ UNCHANGED <<store, url, options, token, refresh, refreshRes, data, err>>
  /\ RestUnchanged

\* Lines 50 and 63: the retried fetch resolved; whatever it is, return it.
RetryResponds(c, status) ==
  /\ pc[c] = "fetch2"
  /\ LET r == Response("retry", status) IN
       /\ res' = [res EXCEPT ![c] = r]
       /\ ret' = [ret EXCEPT ![c] = r]
  /\ events' = [events EXCEPT ![c] = Append(@, ResponseEvent("retry", status))]
  /\ pc' = [pc EXCEPT ![c] = "resolved"]
  /\ UNCHANGED <<store, url, options, token, refresh, refreshRes, data, err>>
  /\ Stay
  /\ RestUnchanged

-----------------------------------------------------------------------------
\* Login.handleSubmit

\* Lines 11-17: the form is submitted and the token request goes out.  The
\* button stays enabled, so a second submission can follow the first.
LoginSubmit(i) ==
  /\ Shows("/")
  /\ loginPc[i] = "idle"
  /\ loginPc' = [loginPc EXCEPT ![i] = "posting"]
  /\ loginLive' = [loginLive EXCEPT ![i] = TRUE]
  /\ UNCHANGED <<store, location, rendered, callVars, lastWriter, loginError,
                 dataVars, entriesVars, summariesVars, regVars>>

\* Lines 20-23: api.post resolved; save both tokens and go to the dashboard,
\* whatever is shown by now.
LoginSucceeds(i, access, rf) ==
  /\ loginPc[i] = "posting"
  /\ store' = setItem(setItem(store, "access", Str(access)), "refresh", Str(rf))
  /\ lastWriter' = [who |-> "login", id |-> i]
  /\ Navigate("/dashboard")
  /\ loginPc' = [loginPc EXCEPT ![i] = "idle"]
  /\ UNCHANGED <<callVars, dataPc, entriesRes, summaryRes, entriesData, logPc,
                 fetchEntriesPc, fetchSummariesPc, regPc, regRes>>

\* Lines 24-26: api.post rejected (non-2xx status or transport failure), or
\* reading the tokens off the response threw.
LoginFails(i) ==
  /\ loginPc[i] = "posting"
  /\ loginError' = IF loginLive[i] THEN "Invalid username or password" ELSE loginError
  /\ loginLive' = [loginLive EXCEPT ![i] = FALSE]
  /\ loginPc' = [loginPc EXCEPT ![i] = "idle"]
  /\ UNCHANGED <<store, location, rendered, callVars, lastWriter, dataVars,
                 entriesVars, summariesVars, regVars>>

-----------------------------------------------------------------------------
\* Dashboard.confirmLogout

\* A variant that forgets the access credential only.
confirmLogoutKeepsRefresh ==
  /\ Shows("/dashboard")
  /\ store' = removeItem(store, "access")
  /\ lastWriter' = [who |-> "logout", id |-> 0]
  /\ Navigate("/")
  /\ UNCHANGED <<callVars, handlers>>

\* Lines 122-126, reached from the logout dialog the Dashboard shows.
confirmLogout ==
  /\ Shows("/dashboard")
  /\ store' = removeItem(removeItem(store, "access"), "refresh")
  /\ lastWriter' = [who |-> "logout", id |-> 0]
  /\ Navigate("/")
  /\ UNCHANGED <<callVars, handlers>>

-----------------------------------------------------------------------------
\* Links between the views.

\* onClick={() => navigate(to)} of an element the view at `from` shows.
Link(from, to) ==
  /\ Shows(from)
  /\ Navigate(to)
  /\ UNCHANGED <<store, callVars>>
  /\ RestUnchanged

\* Dashboard, "Daily Summaries".
GoToSummaries == Link("/dashboard", "/summaries")

\* `foodItems.length`, where it is a number; `foodItems.slice`, where it is
\* a function.
HasLength(v) == v.isArray \/ v.isText
Length(v) == Len(v.items)
HasSlice(v) == v.isArray \/ v.isText
\* `v.map`, where it is a function.
HasMap(v) == v.isArray

\* `v.length > 0 ? v.map(...) : ...` throws, for a v with the first n of
\* its elements: v has elements and no `map`, or printing one throws
\* (`item.id` of null, `item.calories.toFixed(1)` of an entry without
\* calories).
ListThrows(v, n) ==
  /\ HasLength(v)
  /\ Length(v) > 0
  /\ \/ ~HasMap(v)
     \/ \E i \in 1..Length(v) :
          i <= n /\ (v.items[i].isNull \/ ~v.items[i].hasCalories)

\* Dashboard, "See All...", shown when `foodItems.length > 4`.
GoToEntries ==
  /\ HasLength(foodItems)
  /\ Length(foodItems) > 4
  /\ Link("/dashboard", "/entries")

\* EntriesPage and SummariesPage, the back button.
EntriesBack == Link("/entries", "/dashboard")
SummariesBack == Link("/summaries", "/dashboard")

\* Login, "Register here".
GoToRegister == Link("/", RegisterRoute)

\* Register, "Login here".
RegisterLoginHere == Link(RegisterRoute, "/")

-----------------------------------------------------------------------------
\* The browser loads a route of App afresh: pending calls and component
\* state are gone, localStorage stays.

LoadPage(path) ==
  /\ location' = path
  /\ rendered' = TRUE
  /\ pc' = [c \in Slots |-> "idle"]
  /\ url' = [c \in Slots |-> ""]
  /\ options' = [c \in Slots |-> EmptyObject]
  /\ token' = [c \in Slots |-> Null]
  /\ res' = [c \in Slots |-> NoResponse]
  /\ refresh' = [c \in Slots |-> Null]
  /\ refreshRes' = [c \in Slots |-> NoResponse]
  /\ data' = [c \in Slots |-> Null]
  /\ ret' = [c \in Slots |-> NoResponse]
  /\ err' = [c \in Slots |-> NoError]
  /\ events' = [c \in Slots |-> <<>>]
  /\ lastWriter' = [who |-> "none", id |-> 0]
  /\ loginPc' = [i \in Logins |-> "idle"]
  /\ loginLive' = [i \in Logins |-> FALSE]
  /\ loginError' = ""
  /\ dataPc' = [d \in Loads |-> "idle"]
  /\ dataLive' = [d \in Loads |-> FALSE]
  /\ entriesRes' = [d \in Loads |-> NoResponse]
  /\ summaryRes' = [d \in Loads |-> NoResponse]
  /\ entriesData' = [d \in Loads |-> NoEntries]
  /\ logPc' = [j \in Logs |-> "idle"]
  /\ logLive' = [j \in Logs |-> FALSE]
  /\ foodItems' = NoEntries
  /\ todaySummary' = JsonNull
  /\ error' = ""
  /\ mounting' = (path \in EffectRoutes)
  /\ fetchEntriesPc' = [v \in Visits |-> "idle"]
  /\ fetchEntriesLive' = [v \in Visits |-> FALSE]
  /\ entriesFoodItems' = NoEntries
  /\ entriesError' = ""
  /\ fetchSummariesPc' = [v \in Visits |-> "idle"]
  /\ fetchSummariesLive' = [v \in Visits |-> FALSE]
  /\ summaries' = NoEntries
  /\ summariesError' = ""
  /\ regPc' = [i \in Submits |-> "idle"]
  /\ regLive' = [i \in Submits |-> FALSE]
  /\ regRes' = [i \in Submits |-> 0]
  /\ regError' = ""
  /\ regSuccess' = ""
  /\ UNCHANGED store

-----------------------------------------------------------------------------
\* Dashboard.fetchData

EntriesUrl == "http://127.0.0.1:8000/api/entries/today/"
SummaryUrl == "http://127.0.0.1:8000/api/entries/today-summary/"

\* What the body of the entries endpoint parses to: a bare array (long
\* enough for "See All..."; of one entry without calories; of null; or
\* empty), a page object
\* with a `results` array (with an entry, with an entry without calories, or
\* empty), an object without one, a string, or null.
EntriesBodies ==
  { Array(<<Entry("egg", TRUE), Entry("rice", TRUE), Entry("milk", TRUE),
            Entry("oats", TRUE), Entry("tea", TRUE)>>),
    Array(<<Entry("egg", FALSE)>>), Array(<<JsonNull>>), Array(<<>>),
    Page(<<Entry("rice", TRUE)>>), Page(<<Entry("rice", FALSE)>>), Page(<<>>),
    PlainObject, Text(<<"a", "b", "c">>), JsonNull }
\* What the body of the summary endpoint parses to: an object with the
\* totals, an object without them, or null.
SummaryBodies == {Totals, [Totals EXCEPT !.hasTotals = FALSE], JsonNull}

\* `entriesData.results || entriesData`, for a body that is not null: an
\* array, even an empty one, is truthy.
ResultsOr(d) == IF d.hasResults THEN Array(d.results) ELSE d

\* The Dashboard's render throws on these states: line 155 where foodItems
\* has no `slice`, lines 195-199 where printing one of the first four
\* entries throws, line 218 where todaySummary is truthy and has no totals.
DashboardThrows(items, summary) ==
  \/ ~HasSlice(items)
  \/ ListThrows(items, 4)
  \/ ~summary.isNull /\ ~summary.hasTotals

\* setError(msg), by a run of a handler of the Dashboard: it sets nothing
\* once that Dashboard is unmounted.
SetError(live, msg) == error' = IF live THEN msg ELSE error

\* Run d of fetchData is available: the run that used it returned, and the
\* calls that run made are over.
Free(d) ==
  /\ dataPc[d] = "idle"
  /\ \A c \in CallsOf(d) : ~InFlight(c)

\* Lines 69-74: fetchData is called by a Dashboard that is mounted (live) or
\* by a handler that outlived its Dashboard; both calls run up to their first
\* await, and fetchData then awaits Promise.all.  The caller is done with the
\* calls in `over`.
RunFetchData(d, live, over) ==
  /\ Free(d)
  /\ Activate((EntriesCall(d) :> [url |-> EntriesUrl, options |-> EmptyObject])
                @@ (SummaryCall(d) :> [url |-> SummaryUrl,
                                       options |-> EmptyObject]),
              over)
  /\ dataPc' = [dataPc EXCEPT ![d] = "all"]
  /\ dataLive' = [dataLive EXCEPT ![d] = live]
  /\ UNCHANGED <<entriesRes, summaryRes, entriesData>>

\* fetchData returns: its locals are gone.
Return(d) ==
  /\ dataPc' = [dataPc EXCEPT ![d] = "idle"]
  /\ entriesRes' = [entriesRes EXCEPT ![d] = NoResponse]
  /\ summaryRes' = [summaryRes EXCEPT ![d] = NoResponse]
  /\ entriesData' = [entriesData EXCEPT ![d] = NoEntries]

Finish(d) ==
  /\ Return(d)
  /\ dataLive' = [dataLive EXCEPT ![d] = FALSE]

\* What a step of the Dashboard's handlers leaves alone of the other views.
Elsewhere ==
  UNCHANGED <<store, location, rendered, lastWriter, loginVars, entriesVars,
              summariesVars, regVars>>

\* What a step of fetchData past its start leaves alone, besides the calls.
DataFrame ==
  /\ Elsewhere
  /\ UNCHANGED <<logPc, logLive, mounting>>


\* Lines 90-92: the effect of a Dashboard that was just mounted.
FetchDataStart(d) ==
  /\ mounting
  /\ location = "/dashboard"
  /\ RunFetchData(d, TRUE, {})
  /\ mounting' = FALSE
  /\ Elsewhere
  /\ UNCHANGED <<logPc, logLive, foodItems, todaySummary, error>>

\* A variant that tests only the entries response.
FetchDataAllResolvedChecksEntriesOnly(d) ==
  /\ dataPc[d] = "all"
  /\ \A c \in CallsOf(d) : pc[c] = "resolved"
  /\ Release(CallsOf(d))
  /\ IF ~Ok(ret[EntriesCall(d)].status)
       THEN /\ SetError(dataLive[d], "Failed to fetch data")
            /\ Finish(d)
       ELSE /\ dataPc' = [dataPc EXCEPT ![d] = "json1"]
            /\ entriesRes' = [entriesRes EXCEPT ![d] = ret[EntriesCall(d)]]
            /\ summaryRes' = [summaryRes EXCEPT ![d] = ret[SummaryCall(d)]]
            /\ UNCHANGED <<error, dataLive, entriesData>>
  /\ UNCHANGED <<foodItems, todaySummary>>
  /\ DataFrame

\* Lines 71-78 and 85-87: Promise.all resolved with both responses.
FetchDataAllResolved(d) ==
  /\ dataPc[d] = "all"
  /\ \A c \in CallsOf(d) : pc[c] = "resolved"
  /\ Release(CallsOf(d))
  /\ IF ~Ok(ret[EntriesCall(d)].status) \/ ~Ok(ret[SummaryCall(d)].status)
       THEN /\ SetError(dataLive[d], "Failed to fetch data")
            /\ Finish(d)
       ELSE /\ dataPc' = [dataPc EXCEPT ![d] = "json1"]
            /\ entriesRes' = [entriesRes EXCEPT ![d] = ret[EntriesCall(d)]]
            /\ summaryRes' = [summaryRes EXCEPT ![d] = ret[SummaryCall(d)]]
            /\ UNCHANGED <<error, dataLive, entriesData>>
  /\ UNCHANGED <<foodItems, todaySummary>>
  /\ DataFrame

\* Lines 71 and 85-87: Promise.all rejected, as soon as one call rejected;
\* what the other call resolves with is dropped.
FetchDataRejected(d) ==
  /\ dataPc[d] = "all"
  /\ \E c \in CallsOf(d) :
       /\ pc[c] = "rejected"
       /\ SetError(dataLive[d], err[c].message)
  /\ Release({c \in CallsOf(d) : pc[c] \in {"resolved", "rejected"}})
  /\ Finish(d)
  /\ UNCHANGED <<foodItems, todaySummary>>
  /\ DataFrame

\* Line 80: entriesRes.json() resolved.
FetchDataEntriesParsed(d, body) ==
  /\ dataPc[d] = "json1"
  /\ entriesData' = [entriesData EXCEPT ![d] = body]
  /\ dataPc' = [dataPc EXCEPT ![d] = "json2"]
  /\ UNCHANGED <<callVars, dataLive, entriesRes, summaryRes, foodItems,
                 todaySummary, error>>
  /\ DataFrame

\* Lines 80 and 85-87: entriesRes.json() rejected.
FetchDataEntriesParseFails(d, msg) ==
  /\ dataPc[d] = "json1"
  /\ SetError(dataLive[d], msg)
  /\ Finish(d)
  /\ UNCHANGED <<callVars, foodItems, todaySummary>>
  /\ DataFrame

\* Lines 81-87, 155 and 218: summaryRes.json() resolved.  Where entriesData
\* is null, line 83 throws and the catch sets the error.  Otherwise both
\* states are set and the Dashboard renders again; where that render throws,
\* nothing catches it, and React unmounts the whole tree.
FetchDataSummaryParsed(d, body) ==
  /\ dataPc[d] = "json2"
  /\ Return(d)
  /\ IF entriesData[d].isNull
       THEN /\ SetError(dataLive[d], NullMessage("results"))
            /\ dataLive' = [dataLive EXCEPT ![d] = FALSE]
            /\ UNCHANGED <<rendered, logLive, foodItems, todaySummary, mounting>>
       ELSE IF dataLive[d] /\ DashboardThrows(ResultsOr(entriesData[d]), body)
       THEN /\ rendered' = FALSE
            /\ dataLive' = [e \in Loads |-> FALSE]
            /\ logLive' = [j \in Logs |-> FALSE]
            /\ foodItems' = NoEntries
            /\ todaySummary' = JsonNull
            /\ error' = ""
            /\ mounting' = FALSE
       ELSE /\ foodItems' = IF dataLive[d] THEN ResultsOr(entriesData[d])
                                           ELSE foodItems
            /\ todaySummary' = IF dataLive[d] THEN body ELSE todaySummary
            /\ dataLive' = [dataLive EXCEPT ![d] = FALSE]
            /\ UNCHANGED <<rendered, logLive, error, mounting>>
  /\ UNCHANGED <<store, location, lastWriter, loginVars, entriesVars,
                 summariesVars, regVars, callVars, logPc>>

\* Lines 81 and 85-87: summaryRes.json() rejected.
FetchDataSummaryParseFails(d, msg) ==
  /\ dataPc[d] = "json2"
  /\ SetError(dataLive[d], msg)
  /\ Finish(d)
  /\ UNCHANGED <<callVars, foodItems, todaySummary>>
  /\ DataFrame

-----------------------------------------------------------------------------
\* Dashboard.handleLogFood

\* What the body of a refusal parses to: null, or a value whose `detail`
\* member is a message or absent.
WithDetail(v) == [isNull |-> FALSE, detail |-> v]
LogFoodErrors == {WithDetail(Str("Food not found")), WithDetail(Undefined), JsonNull}

\* What a step of handleLogFood that starts no fetchData leaves alone,
\* besides the calls.
LogFrame ==
  /\ Elsewhere
  /\ UNCHANGED <<dataPc, dataLive, entriesRes, summaryRes, entriesData,
                 foodItems, todaySummary, mounting>>

\* handleLogFood returns.
LogFinish(j) ==
  /\ logPc' = [logPc EXCEPT ![j] = "idle"]
  /\ logLive' = [logLive EXCEPT ![j] = FALSE]

\* Lines 181-184: typing into the food field clears the error.
FoodNameOnChange ==
  /\ Shows("/dashboard")
  /\ error' = ""
  /\ Elsewhere
  /\ UNCHANGED <<callVars, dataPc, dataLive, entriesRes, summaryRes,
                 entriesData, logPc, logLive, foodItems, todaySummary, mounting>>

\* Lines 95-106: the form is submitted; the call runs up to its first await.
LogFoodSubmit(j, foodName) ==
  /\ Shows("/dashboard")
  /\ logPc[j] = "idle"
  /\ pc[LogCall(j)] \in {"idle", "resolved", "rejected"}
  /\ Invoke(LogCall(j), [url |-> LogFoodUrl, options |-> LogFoodOptions(foodName)])
  /\ logPc' = [logPc EXCEPT ![j] = "call"]
  /\ logLive' = [logLive EXCEPT ![j] = TRUE]
  /\ UNCHANGED error
  /\ LogFrame

\* Lines 99 and 108-109: the call resolved with a refusal; its body is read.
LogFoodRefused(j) ==
  /\ logPc[j] = "call"
  /\ pc[LogCall(j)] = "resolved"
  /\ ~Ok(ret[LogCall(j)].status)
  /\ Release({LogCall(j)})
  /\ logPc' = [logPc EXCEPT ![j] = "json"]
  /\ UNCHANGED <<logLive, error>>
  /\ LogFrame

\* Lines 99, 108 and 113-115: the call resolved with an ok response; the
\* field and the error are cleared and fetchData runs again.
LogFoodAccepted(j, d) ==
  /\ logPc[j] = "call"
  /\ pc[LogCall(j)] = "resolved"
  /\ Ok(ret[LogCall(j)].status)
  /\ SetError(logLive[j], "")
  /\ RunFetchData(d, logLive[j], {LogCall(j)})
  /\ LogFinish(j)
  /\ Elsewhere
  /\ UNCHANGED <<foodItems, todaySummary, mounting>>

\* Lines 99 and 116-118: the call rejected.
LogFoodRejected(j) ==
  /\ logPc[j] = "call"
  /\ pc[LogCall(j)] = "rejected"
  /\ SetError(logLive[j], err[LogCall(j)].message)
  /\ Release({LogCall(j)})
  /\ LogFinish(j)
  /\ LogFrame

\* Lines 109-110 and 116-118: the refusal's body was parsed; the error is
\* its detail, or the TypeError of reading `errData.detail` where errData is
\* null.
LogFoodErrorParsed(j, errData) ==
  /\ logPc[j] = "json"
  /\ SetError(logLive[j],
              IF errData.isNull THEN NullMessage("detail")
              ELSE IF Truthy(errData.detail) THEN errData.detail.str
              ELSE "Failed to log food")
  /\ LogFinish(j)
  /\ UNCHANGED callVars
  /\ LogFrame

\* Lines 109 and 116-118: response.json() rejected.
LogFoodErrorParseFails(j, msg) ==
  /\ logPc[j] = "json"
  /\ SetError(logLive[j], msg)
  /\ LogFinish(j)
  /\ UNCHANGED callVars
  /\ LogFrame

-----------------------------------------------------------------------------
\* EntriesPage: the effect that fetches today's entries.

\* What a step of one of the two list pages leaves alone of the other views.
ListFrame ==
  UNCHANGED <<store, location, rendered, lastWriter, loginVars, regVars, dataPc,
              dataLive, entriesRes, summaryRes, entriesData, logPc, logLive,
              foodItems, todaySummary, error>>

\* fetchEntries returns.
FetchEntriesFinish(v) ==
  /\ fetchEntriesPc' = [fetchEntriesPc EXCEPT ![v] = "idle"]
  /\ fetchEntriesLive' = [fetchEntriesLive EXCEPT ![v] = FALSE]

\* Lines 63-66 and 82: the effect of an EntriesPage that was just mounted;
\* the call runs up to its first await.
FetchEntriesStart(v) ==
  /\ mounting
  /\ location = "/entries"
  /\ fetchEntriesPc[v] = "idle"
  /\ ~InFlight(FetchEntriesCall(v))
  /\ Invoke(FetchEntriesCall(v), [url |-> EntriesUrl, options |-> EmptyObject])
  /\ fetchEntriesPc' = [fetchEntriesPc EXCEPT ![v] = "call"]
  /\ fetchEntriesLive' = [fetchEntriesLive EXCEPT ![v] = TRUE]
  /\ mounting' = FALSE
  /\ UNCHANGED <<entriesFoodItems, entriesError, summariesVars>>
  /\ ListFrame

\* Lines 66-67 and 77-79: the call resolved; a response that is not ok is an
\* error, the body of an ok one is read.
FetchEntriesResolved(v) ==
  /\ fetchEntriesPc[v] = "call"
  /\ pc[FetchEntriesCall(v)] = "resolved"
  /\ Release({FetchEntriesCall(v)})
  /\ IF ~Ok(ret[FetchEntriesCall(v)].status)
       THEN /\ entriesError' = IF fetchEntriesLive[v] THEN "Failed to fetch entries"
                                                      ELSE entriesError
            /\ FetchEntriesFinish(v)
       ELSE /\ fetchEntriesPc' = [fetchEntriesPc EXCEPT ![v] = "json"]
            /\ UNCHANGED <<fetchEntriesLive, entriesError>>
  /\ UNCHANGED <<entriesFoodItems, summariesVars, mounting>>
  /\ ListFrame

\* Lines 66 and 77-79: the call rejected.
FetchEntriesRejected(v) ==
  /\ fetchEntriesPc[v] = "call"
  /\ pc[FetchEntriesCall(v)] = "rejected"
  /\ entriesError' = IF fetchEntriesLive[v] THEN err[FetchEntriesCall(v)].message
                                            ELSE entriesError
  /\ Release({FetchEntriesCall(v)})
  /\ FetchEntriesFinish(v)
  /\ UNCHANGED <<entriesFoodItems, summariesVars, mounting>>
  /\ ListFrame

\* `(data.results && data.results.length > 0) || data.length > 0`
HasEntries(d) ==
  \/ d.hasResults /\ Len(d.results) > 0
  \/ HasLength(d) /\ Length(d) > 0

\* Lines 69-79 and 122-135: res.json() resolved.  Where data is null, line
\* 71 throws and the catch sets the error.  Otherwise the list is set, the
\* error is cleared when the list has an entry, and the page renders again;
\* where that render throws, nothing catches it, and React unmounts the
\* whole tree.
FetchEntriesParsed(v, body) ==
  /\ fetchEntriesPc[v] = "json"
  /\ fetchEntriesPc' = [fetchEntriesPc EXCEPT ![v] = "idle"]
  /\ IF fetchEntriesLive[v] /\ body.isNull
       THEN /\ entriesError' = NullMessage("results")
            /\ fetchEntriesLive' = [fetchEntriesLive EXCEPT ![v] = FALSE]
            /\ UNCHANGED <<rendered, entriesFoodItems, mounting>>
       ELSE IF /\ fetchEntriesLive[v]
               /\ ListThrows(ResultsOr(body), Length(ResultsOr(body)))
       THEN /\ rendered' = FALSE
            /\ fetchEntriesLive' = [w \in Visits |-> FALSE]
            /\ entriesFoodItems' = NoEntries
            /\ entriesError' = ""
            /\ mounting' = FALSE
       ELSE /\ entriesFoodItems' = IF fetchEntriesLive[v] THEN ResultsOr(body)
                                                          ELSE entriesFoodItems
            /\ entriesError' = IF fetchEntriesLive[v] /\ HasEntries(body)
                                 THEN "" ELSE entriesError
            /\ fetchEntriesLive' = [fetchEntriesLive EXCEPT ![v] = FALSE]
            /\ UNCHANGED <<rendered, mounting>>
  /\ UNCHANGED <<store, location, lastWriter, loginVars, regVars, dataPc,
                 dataLive, entriesRes, summaryRes, entriesData, logPc, logLive,
                 foodItems, todaySummary, error, callVars, summariesVars>>

\* Lines 69 and 77-79: res.json() rejected.
FetchEntriesParseFails(v, msg) ==
  /\ fetchEntriesPc[v] = "json"
  /\ entriesError' = IF fetchEntriesLive[v] THEN msg ELSE entriesError
  /\ FetchEntriesFinish(v)
  /\ UNCHANGED <<callVars, entriesFoodItems, summariesVars, mounting>>
  /\ ListFrame

-----------------------------------------------------------------------------
\* SummariesPage: the effect that fetches the daily summaries.

DailySummariesUrl == "http://127.0.0.1:8000/api/entries/daily-summaries/"

\* What the body of the daily summaries endpoint parses to: an array (of a
\* day whose totals are numbers, absent or strings; of null; or empty), an
\* object that is no array, a string, or null.
DailySummariesBodies ==
  { Array(<<Day("monday", "numbers")>>), Array(<<Day("monday", "absent")>>),
    Array(<<Day("monday", "strings")>>), Array(<<JsonNull>>), Array(<<>>),
    PlainObject, Text(<<"a", "b", "c">>), JsonNull }

\* SummariesPage's render throws on this state: lines 100 and 128-146
\* (`s.date` of null, `s.total_calories?.toFixed(1)` of a total that is a
\* string).
SummariesThrows(list) ==
  \/ list.isNull
  \/ /\ HasLength(list)
     /\ Length(list) > 0
     /\ \/ ~HasMap(list)
        \/ \E i \in 1..Length(list) :
             list.items[i].isNull \/ list.items[i].totals = "strings"

\* fetchSummaries returns.
FetchSummariesFinish(v) ==
  /\ fetchSummariesPc' = [fetchSummariesPc EXCEPT ![v] = "idle"]
  /\ fetchSummariesLive' = [fetchSummariesLive EXCEPT ![v] = FALSE]

\* Lines 61-66 and 76: the effect of a SummariesPage that was just mounted;
\* the call runs up to its first await.
FetchSummariesStart(v) ==
  /\ mounting
  /\ location = "/summaries"
  /\ fetchSummariesPc[v] = "idle"
  /\ ~InFlight(FetchSummariesCall(v))
  /\ Invoke(FetchSummariesCall(v),
            [url |-> DailySummariesUrl, options |-> EmptyObject])
  /\ fetchSummariesPc' = [fetchSummariesPc EXCEPT ![v] = "call"]
  /\ fetchSummariesLive' = [fetchSummariesLive EXCEPT ![v] = TRUE]
  /\ mounting' = FALSE
  /\ UNCHANGED <<summaries, summariesError, entriesVars>>
  /\ ListFrame

\* Lines 64-67 and 71-73: the call resolved; a response that is not ok is an
\* error, the body of an ok one is read.
FetchSummariesResolved(v) ==
  /\ fetchSummariesPc[v] = "call"
  /\ pc[FetchSummariesCall(v)] = "resolved"
  /\ Release({FetchSummariesCall(v)})
  /\ IF ~Ok(ret[FetchSummariesCall(v)].status)
       THEN /\ summariesError' = IF fetchSummariesLive[v]
                                   THEN "Failed to fetch summaries"
                                   ELSE summariesError
            /\ FetchSummariesFinish(v)
       ELSE /\ fetchSummariesPc' = [fetchSummariesPc EXCEPT ![v] = "json"]
            /\ UNCHANGED <<fetchSummariesLive, summariesError>>
  /\ UNCHANGED <<summaries, entriesVars, mounting>>
  /\ ListFrame

\* Lines 64 and 71-73: the call rejected.
FetchSummariesRejected(v) ==
  /\ fetchSummariesPc[v] = "call"
  /\ pc[FetchSummariesCall(v)] = "rejected"
  /\ summariesError' = IF fetchSummariesLive[v]
                         THEN err[FetchSummariesCall(v)].message
                         ELSE summariesError
  /\ Release({FetchSummariesCall(v)})
  /\ FetchSummariesFinish(v)
  /\ UNCHANGED <<summaries, entriesVars, mounting>>
  /\ ListFrame

\* Lines 69-70, 100 and 128-146: res.json() resolved; the list is set and
\* the page renders again.  Where that render throws, nothing catches it,
\* and React unmounts the whole tree.
FetchSummariesParsed(v, body) ==
  /\ fetchSummariesPc[v] = "json"
  /\ fetchSummariesPc' = [fetchSummariesPc EXCEPT ![v] = "idle"]
  /\ IF fetchSummariesLive[v] /\ SummariesThrows(body)
       THEN /\ rendered' = FALSE
            /\ fetchSummariesLive' = [w \in Visits |-> FALSE]
            /\ summaries' = NoEntries
            /\ summariesError' = ""
            /\ mounting' = FALSE
       ELSE /\ summaries' = IF fetchSummariesLive[v] THEN body ELSE summaries
            /\ fetchSummariesLive' = [fetchSummariesLive EXCEPT ![v] = FALSE]
            /\ UNCHANGED <<rendered, summariesError, mounting>>
  /\ UNCHANGED <<store, location, lastWriter, loginVars, regVars, dataPc,
                 dataLive, entriesRes, summaryRes, entriesData, logPc, logLive,
                 foodItems, todaySummary, error, callVars, entriesVars>>

\* Lines 69 and 71-73: res.json() rejected.
FetchSummariesParseFails(v, msg) ==
  /\ fetchSummariesPc[v] = "json"
  /\ summariesError' = IF fetchSummariesLive[v] THEN msg ELSE summariesError
  /\ FetchSummariesFinish(v)
  /\ UNCHANGED <<callVars, summaries, entriesVars, mounting>>
  /\ ListFrame

-----------------------------------------------------------------------------
\* Register.handleSubmit

\* Statuses the registration endpoint may answer with.
RegisterStatuses == {201, 400}
\* `data.error` of a refused registration: a message, or absent.
RegisterErrors == {Str("Username already exists"), Undefined}

\* handleSubmit returns.
RegisterFinish(i) ==
  /\ regPc' = [regPc EXCEPT ![i] = "idle"]
  /\ regLive' = [regLive EXCEPT ![i] = FALSE]
  /\ regRes' = [regRes EXCEPT ![i] = 0]

\* What a step of handleSubmit leaves alone.
RegisterFrame ==
  UNCHANGED <<store, location, rendered, callVars, lastWriter, loginVars,
              dataVars, entriesVars, summariesVars>>

\* Lines 12-27: clear both messages, compare the passwords, post.  The button
\* stays enabled, so a submission can follow one that is still under way.
RegisterSubmit(i, match) ==
  /\ Shows(RegisterRoute)
  /\ match => regPc[i] = "idle"
  /\ regSuccess' = ""
  /\ IF ~match
       THEN /\ regError' = "Passwords do not match."
            /\ UNCHANGED <<regPc, regLive>>
       ELSE /\ regError' = ""
            /\ regPc' = [regPc EXCEPT ![i] = "posting"]
            /\ regLive' = [regLive EXCEPT ![i] = TRUE]
  /\ UNCHANGED regRes
  /\ RegisterFrame

\* Lines 23 and 29-33: the registration request was answered.
RegisterResponds(i, status) ==
  /\ regPc[i] = "posting"
  /\ regRes' = [regRes EXCEPT ![i] = status]
  /\ IF Ok(status)
       THEN /\ regSuccess' = IF regLive[i]
                               THEN "Registration successful! Redirecting to login..."
                               ELSE regSuccess
            /\ regPc' = [regPc EXCEPT ![i] = "timer"]
       ELSE /\ regPc' = [regPc EXCEPT ![i] = "json"]
            /\ UNCHANGED regSuccess
  /\ UNCHANGED <<regLive, regError>>
  /\ RegisterFrame

\* Lines 33-34: the body of the refusal was parsed.
RegisterErrorParsed(i, e) ==
  /\ regPc[i] = "json"
  /\ regError' = IF regLive[i]
                   THEN (IF Truthy(e) THEN e.str ELSE "Registration failed.")
                   ELSE regError
  /\ RegisterFinish(i)
  /\ UNCHANGED regSuccess
  /\ RegisterFrame

\* Lines 36-38: the request, or the parsing of the refusal, failed, or the
\* refusal's body is null and reading `data.error` threw.
RegisterFails(i) ==
  /\ regPc[i] \in {"posting", "json"}
  /\ regError' = IF regLive[i] THEN "Something went wrong. Please try again."
                               ELSE regError
  /\ RegisterFinish(i)
  /\ UNCHANGED regSuccess
  /\ RegisterFrame

\* Line 31: the scheduled navigate("/") runs, whatever is shown by now.
RegisterTimerFires(i) ==
  /\ regPc[i] = "timer"
  /\ Navigate("/")
  /\ regPc' = [regPc EXCEPT ![i] = "idle"]
  /\ regRes' = [regRes EXCEPT ![i] = 0]
  /\ UNCHANGED <<store, callVars, lastWriter, loginPc, dataPc, entriesRes,
                 summaryRes, entriesData, logPc, fetchEntriesPc,
                 fetchSummariesPc>>

-----------------------------------------------------------------------------
\* The application: every handler of every view, the router and the API.

\* A handler of the pages awaits call c.
Awaited(c) ==
  \/ \E d \in Loads : c \in CallsOf(d) /\ dataPc[d] = "all"
  \/ \E j \in Logs : c = LogCall(j) /\ logPc[j] = "call"
  \/ \E v \in Visits : c = FetchEntriesCall(v) /\ fetchEntriesPc[v] = "call"
  \/ \E v \in Visits : c = FetchSummariesCall(v) /\ fetchSummariesPc[v] = "call"

\* Line 63, or an await that rejected, where no handler awaits the call any
\* more (Promise.all rejected before the call was over): the response or the
\* Error is dropped and nothing is left of the call.
CallerReturns(c) ==
  /\ Settled(c)
  /\ ~Awaited(c)
  /\ Release({c})
  /\ UNCHANGED store
  /\ Stay
  /\ RestUnchanged

\* A handler's continuation is due: the promise it awaits settled (or a page
\* was mounted and its effect is to run), and it runs before the next event
\* is handled.
Due ==
  \/ mounting
  \/ \E d \in Loads :
       /\ dataPc[d] = "all"
       /\ \/ \E c \in CallsOf(d) : pc[c] = "rejected"
          \/ \A c \in CallsOf(d) : pc[c] = "resolved"
  \/ \E j \in Logs : logPc[j] = "call" /\ Settled(LogCall(j))
  \/ \E v \in Visits : fetchEntriesPc[v] = "call" /\ Settled(FetchEntriesCall(v))
  \/ \E v \in Visits : fetchSummariesPc[v] = "call" /\ Settled(FetchSummariesCall(v))
  \/ \E c \in Slots : Settled(c) /\ ~Awaited(c)

\* The runs of the handlers that are under way, a call that outlives its
\* run included.  A handleSubmit of Register that scheduled its timer has
\* returned: it is no run any more.
RunningLogins == {i \in Logins : loginPc[i] # "idle"}
RunningRegisters == {i \in Submits : regPc[i] \in {"posting", "json"}}
RunningData == {d \in Loads : ~Free(d)}
RunningLogs == {j \in Logs : logPc[j] # "idle" \/ InFlight(LogCall(j))}
RunningEntries ==
  {v \in Visits : fetchEntriesPc[v] # "idle" \/ InFlight(FetchEntriesCall(v))}
RunningSummaries ==
  {v \in Visits : fetchSummariesPc[v] # "idle" \/ InFlight(FetchSummariesCall(v))}

Running ==
  Cardinality(RunningLogins) + Cardinality(RunningRegisters)
    + Cardinality(RunningData) + Cardinality(RunningLogs)
    + Cardinality(RunningEntries) + Cardinality(RunningSummaries)

\* One more run can start, once `over` of the runs under way are over.
Room(over) == Running - over + 1 <= NumRunning

\* The effect of the page at `to` can run.
CanMount(to, over) ==
  /\ Room(over)
  /\ to = "/dashboard" => \E d \in Loads : Free(d)
  /\ to = "/entries" => \E v \in Visits : v \notin RunningEntries
  /\ to = "/summaries" => \E v \in Visits : v \notin RunningSummaries

\* An event is handled when no continuation is due; and the events after
\* which calls are made (a form is submitted, a page with an effect is
\* mounted, handleLogFood gets an ok response) come when there is room for
\* them.
Handles(c, status) ==
  /\ ~Due
  /\ (c \in LogCalls /\ Ok(status)) => \E d \in Loads : Free(d)

Mounts(to, over) ==
  /\ ~Due
  /\ (rendered /\ to # location /\ to \in EffectRoutes) => CanMount(to, over)

Next ==
  \/ \E c \in Slots : CallerReturns(c)
  \/ ~Due /\ \E c \in Slots : InitialFails(c)
  \/ \E c \in Slots, s \in Statuses : Handles(c, s) /\ InitialResponds(c, s)
  \/ ~Due /\ \E c \in Slots : RefreshFails(c)
  \/ ~Due /\ \E c \in Slots, s \in RefreshStatuses : RefreshResponds(c, s)
  \/ ~Due /\ \E c \in Slots, b \in RefreshBodies : RefreshParsed(c, b)
  \/ ~Due /\ \E c \in Slots, m \in SyntaxErrors : RefreshParseFails(c, m)
  \/ ~Due /\ \E c \in Slots : RetryFails(c)
  \/ \E c \in Slots, s \in Statuses : Handles(c, s) /\ RetryResponds(c, s)
  \/ ~Due /\ Room(0) /\ \E i \in Logins : LoginSubmit(i)
  \/ \E i \in Logins, a \in LoginAccess, r \in LoginRefresh :
       Mounts("/dashboard", 1) /\ LoginSucceeds(i, a, r)
  \/ ~Due /\ \E i \in Logins : LoginFails(i)
  \/ ~Due /\ confirmLogout
  \/ Mounts("/summaries", 0) /\ GoToSummaries
  \/ Mounts("/entries", 0) /\ GoToEntries
  \/ Mounts("/dashboard", 0) /\ EntriesBack
  \/ Mounts("/dashboard", 0) /\ SummariesBack
  \/ ~Due /\ GoToRegister
  \/ ~Due /\ RegisterLoginHere
  \/ ~Due /\ \E p \in Routes : LoadPage(p)
  \/ \E d \in Loads : FetchDataStart(d)
  \/ \E d \in Loads : FetchDataAllResolved(d)
  \/ \E d \in Loads : FetchDataRejected(d)
  \/ ~Due /\ \E d \in Loads, b \in EntriesBodies : FetchDataEntriesParsed(d, b)
  \/ ~Due /\ \E d \in Loads, m \in SyntaxErrors : FetchDataEntriesParseFails(d, m)
  \/ ~Due /\ \E d \in Loads, b \in SummaryBodies : FetchDataSummaryParsed(d, b)
  \/ ~Due /\ \E d \in Loads, m \in SyntaxErrors : FetchDataSummaryParseFails(d, m)
  \/ ~Due /\ FoodNameOnChange
  \/ ~Due /\ Room(0) /\ \E j \in Logs, f \in FoodNames : LogFoodSubmit(j, f)
  \/ \E j \in Logs : LogFoodRefused(j)
  \/ \E j \in Logs, d \in Loads : LogFoodAccepted(j, d)
  \/ \E j \in Logs : LogFoodRejected(j)
  \/ ~Due /\ \E j \in Logs, e \in LogFoodErrors : LogFoodErrorParsed(j, e)
  \/ ~Due /\ \E j \in Logs, m \in SyntaxErrors : LogFoodErrorParseFails(j, m)
  \/ \E v \in Visits : FetchEntriesStart(v)
  \/ \E v \in Visits : FetchEntriesResolved(v)
  \/ \E v \in Visits : FetchEntriesRejected(v)
  \/ ~Due /\ \E v \in Visits, b \in EntriesBodies : FetchEntriesParsed(v, b)
  \/ ~Due /\ \E v \in Visits, m \in SyntaxErrors : FetchEntriesParseFails(v, m)
  \/ \E v \in Visits : FetchSummariesStart(v)
  \/ \E v \in Visits : FetchSummariesResolved(v)
  \/ \E v \in Visits : FetchSummariesRejected(v)
  \/ ~Due /\ \E v \in Visits, b \in DailySummariesBodies : FetchSummariesParsed(v, b)
  \/ ~Due /\ \E v \in Visits, m \in SyntaxErrors : FetchSummariesParseFails(v, m)
  \/ ~Due /\ \E i \in Submits, match \in BOOLEAN :
       (match => Room(0)) /\ RegisterSubmit(i, match)
  \/ ~Due /\ \E i \in Submits, s \in RegisterStatuses : RegisterResponds(i, s)
  \/ ~Due /\ \E i \in Submits, e \in RegisterErrors : RegisterErrorParsed(i, e)
  \/ ~Due /\ \E i \in Submits : RegisterFails(i)
  \/ ~Due /\ \E i \in Submits : RegisterTimerFires(i)

Spec == Init /\ [][Next]_vars

\* The steps by which a network request of call c completes: its promise
\* settles, or the body of the refresh response is read.
CallStep(c) ==
  \/ InitialFails(c)
  \/ \E s \in Statuses : InitialResponds(c, s)
  \/ RefreshFails(c)
  \/ \E s \in RefreshStatuses : RefreshResponds(c, s)
  \/ \E b \in RefreshBodies : RefreshParsed(c, b)
  \/ \E m \in SyntaxErrors : RefreshParseFails(c, m)
  \/ RetryFails(c)
  \/ \E s \in Statuses : RetryResponds(c, s)

\* The continuations that run as soon as they are due.
Continue ==
  \/ \E c \in Slots : CallerReturns(c)
  \/ \E d \in Loads : FetchDataStart(d)
  \/ \E d \in Loads : FetchDataAllResolved(d)
  \/ \E d \in Loads : FetchDataRejected(d)
  \/ \E j \in Logs : LogFoodRefused(j)
  \/ \E j \in Logs, d \in Loads : LogFoodAccepted(j, d)
  \/ \E j \in Logs : LogFoodRejected(j)
  \/ \E v \in Visits : FetchEntriesStart(v)
  \/ \E v \in Visits : FetchEntriesResolved(v)
  \/ \E v \in Visits : FetchEntriesRejected(v)
  \/ \E v \in Visits : FetchSummariesStart(v)
  \/ \E v \in Visits : FetchSummariesResolved(v)
  \/ \E v \in Visits : FetchSummariesRejected(v)

\* The application, where every network request a call issues eventually
\* completes and every continuation that is due runs.  Nothing is assumed of
\* the user or of reloads.
SpecLive ==
  /\ Init
  /\ [][Next]_vars
  /\ WF_vars(Continue)
  /\ \A c \in Slots : WF_vars(CallStep(c))

-----------------------------------------------------------------------------
TypeOK ==
  /\ pc \in [Slots -> {"idle", "fetch1", "refreshing", "json", "fetch2",
                       "resolved", "rejected"}]
  /\ location \in Routes
  /\ rendered \in BOOLEAN
  /\ \A k \in Keys : store[k].isNull \in BOOLEAN /\ ~store[k].isUndefined
  /\ loginPc \in [Logins -> {"idle", "posting"}]
  /\ loginLive \in [Logins -> BOOLEAN]
  /\ dataPc \in [Loads -> {"idle", "all", "json1", "json2"}]
  /\ dataLive \in [Loads -> BOOLEAN]
  /\ logPc \in [Logs -> {"idle", "call", "json"}]
  /\ logLive \in [Logs -> BOOLEAN]
  /\ mounting \in BOOLEAN
  /\ fetchEntriesPc \in [Visits -> {"idle", "call", "json"}]
  /\ fetchEntriesLive \in [Visits -> BOOLEAN]
  /\ fetchSummariesPc \in [Visits -> {"idle", "call", "json"}]
  /\ fetchSummariesLive \in [Visits -> BOOLEAN]
  /\ regPc \in [Submits -> {"idle", "posting", "json", "timer"}]
  /\ regLive \in [Submits -> BOOLEAN]
-----------------------------------------------------------------------------
\* Reading a call's event log.

\* Positions in call c's log of the events with this op and kind.
At(c, op, kind) ==
  {i \in DOMAIN events[c] : events[c][i].op = op /\ events[c][i].kind = kind}

Fetches(c, kind) == Cardinality(At(c, "fetch", kind))
Navigations(c) == Cardinality(At(c, "navigate", ""))
Writes(c) == Cardinality(At(c, "setItem", ""))

\* Every navigation call c made went to the login view.
OnlyToLogin(c) == \A i \in At(c, "navigate", "") : events[c][i].to = "/"

\* The fetch of this kind was answered with this status.
Answered(c, kind, status) ==
  \E i \in At(c, "response", kind) : events[c][i].status = status

\* The fetch of this kind failed at the transport level.
Failed(c, kind) == At(c, "failure", kind) # {}

\* The one event of call c with this op and kind (used where there is one).
The(c, op, kind) == events[c][CHOOSE i \in At(c, op, kind) : TRUE]

\* Call c is made in this step.
Invoked(c) == pc[c] # "fetch1" /\ pc'[c] = "fetch1"

\* The events call c performs in this step.
Performed(c) ==
  IF Invoked(c) THEN {events'[c][1]}
  ELSE {events'[c][i] : i \in (Len(events[c]) + 1)..Len(events'[c])}

\* A submission of the Login form is over in this step.
LoginOver(i) == loginPc[i] = "posting" /\ loginPc'[i] = "idle"

-----------------------------------------------------------------------------
\* C1 (as stated): a call whose first response was 401, that found a refresh
\* credential and whose refresh call returned ok has, once what follows the
\* refresh response has run and until the call is over, issued exactly one
\* refresh call and exactly one retried request and written the access key
\* exactly once, with the value the refresh returned; and the store holds
\* that value for as long as nobody else writes the access key.
RefreshedAndRetriedOnce ==
  \A c \in Slots :
    ( /\ pc[c] \in {"fetch2", "resolved", "rejected"}
      /\ Answered(c, "initial", 401)
      /\ Truthy(refresh[c])
      /\ \E s \in RefreshStatuses : Ok(s) /\ Answered(c, "refresh", s) )
    => /\ Fetches(c, "initial") = 1
       /\ Fetches(c, "refresh") = 1
       /\ Fetches(c, "retry") = 1
       /\ Writes(c) = 1
       /\ The(c, "setItem", "").key = "access"
       /\ The(c, "setItem", "").value = String(data[c])
       /\ (lastWriter = [who |-> "call", id |-> c]
             => getItem(store, "access") = Str(String(data[c])))

\* C2: a call whose first response was 401 while the store held no refresh
\* credential has resolved with that 401 response, has invoked navigation to
\* the login view exactly once, and has issued neither a refresh call nor a
\* second request.
NoRefreshCredentialRedirects ==
  \A c \in Slots :
    (Answered(c, "initial", 401) /\ refresh[c].isNull)
    => /\ pc[c] = "resolved"
       /\ ret[c] = Response("initial", 401)
       /\ Navigations(c) = 1
       /\ OnlyToLogin(c)
       /\ Fetches(c, "refresh") = 0
       /\ Fetches(c, "retry") = 0
       /\ Fetches(c, "initial") = 1

NoRefreshCredentialWitness ==
  \E c \in Slots :
    /\ Answered(c, "initial", 401)
    /\ refresh[c].isNull
    /\ pc[c] = "resolved"
    /\ location = "/"

\* C3: a call whose refresh call was answered with a non-2xx status has
\* resolved with the original 401 response (not the refresh endpoint's), has
\* invoked navigation to the login view exactly once, has written nothing to
\* the store and has issued no retried request.
FailedRefreshRedirects ==
  \A c \in Slots :
    (\E s \in RefreshStatuses : ~Ok(s) /\ Answered(c, "refresh", s))
    => /\ pc[c] = "resolved"
       /\ ret[c] = Response("initial", 401)
       /\ Navigations(c) = 1
       /\ OnlyToLogin(c)
       /\ Writes(c) = 0
       /\ Fetches(c, "retry") = 0
       /\ (lastWriter = [who |-> "none", id |-> 0]
             => getItem(store, "access") = token[c])

FailedRefreshWitness ==
  \E c \in Slots :
    /\ Answered(c, "refresh", 401)
    /\ pc[c] = "resolved"
    /\ refreshRes[c] = Response("refresh", 401)
    /\ getItem(store, "access") = Str("old")

\* C4: a call whose first response has any status other than 401 has
\* resolved with that same response and has done nothing else: no refresh
\* call, no second request, no store write, no navigation.
Non401PassesThrough ==
  \A c \in Slots : \A s \in Statuses \ {401} :
    Answered(c, "initial", s)
    => /\ pc[c] = "resolved"
       /\ ret[c] = Response("initial", s)
       /\ Len(events[c]) = 2
       /\ Fetches(c, "initial") = 1
       /\ Fetches(c, "refresh") = 0
       /\ Fetches(c, "retry") = 0
       /\ Writes(c) = 0
       /\ Navigations(c) = 0

Non401Witness ==
  \E c \in Slots :
    /\ Answered(c, "initial", 500)
    /\ pc[c] = "resolved"
    /\ ret[c].status = 500

\* C5: a call never issues more than two protected requests and one refresh
\* request; and when the retried request is answered 401 the call has
\* resolved with that second 401, having made a single refresh call.
AtMostOneRefreshAndRetry ==
  \A c \in Slots :
    /\ Fetches(c, "initial") + Fetches(c, "retry") <= 2
    /\ Fetches(c, "refresh") <= 1
    /\ Cardinality({i \in DOMAIN events[c] : events[c][i].op = "fetch"}) <= 3
    /\ Answered(c, "retry", 401)
         => /\ pc[c] = "resolved"
            /\ ret[c] = Response("retry", 401)
            /\ Fetches(c, "refresh") = 1
            /\ Fetches(c, "retry") = 1

SecondUnauthorizedWitness ==
  \E c \in Slots :
    /\ Answered(c, "initial", 401)
    /\ Answered(c, "retry", 401)
    /\ pc[c] = "resolved"
    /\ Cardinality({i \in DOMAIN events[c] : events[c][i].op = "fetch"}) = 3

\* C6 (as stated): a call whose refresh call failed at the transport level
\* has invoked navigation to the login view exactly once, like a call whose
\* refresh call was answered with a non-2xx status.
RefreshTransportFailureRedirects ==
  \A c \in Slots :
    Failed(c, "refresh") => (Navigations(c) = 1 /\ OnlyToLogin(c))

\* C7 (as stated): in the authentication-exhaustion branch (first response
\* 401, and the refresh credential absent or the refresh attempt failed in
\* any way) the call resolves with a response; it never rejects.
ExhaustionNeverRejects ==
  \A c \in Slots :
    ( /\ Answered(c, "initial", 401)
      /\ \/ refresh[c].isNull
         \/ Failed(c, "refresh")
         \/ \E s \in RefreshStatuses : ~Ok(s) /\ Answered(c, "refresh", s) )
    => (pc[c] = "resolved" /\ ret[c] # NoResponse)

\* C8: a call whose first request failed at the transport level has rejected
\* with that failure (it resolved with nothing), and has issued no refresh
\* call and no retry, written nothing to the store and not navigated.
PrimaryFailurePropagates ==
  \A c \in Slots :
    Failed(c, "initial")
    => /\ pc[c] = "rejected"
       /\ err[c] = FetchError("initial")
       /\ ret[c] = NoResponse
       /\ Len(events[c]) = 2
       /\ Fetches(c, "refresh") = 0
       /\ Fetches(c, "retry") = 0
       /\ Writes(c) = 0
       /\ Navigations(c) = 0

PrimaryFailureWitness ==
  \E c \in Slots :
    /\ Failed(c, "initial")
    /\ pc[c] = "rejected"
    /\ ~getItem(store, "refresh").isNull

\* C9: on every path of a call, navigation is invoked at most once, only to
\* the login view, and never on a path where the retried request was issued.
NavigatesAtMostOnce ==
  \A c \in Slots :
    /\ Navigations(c) <= 1
    /\ OnlyToLogin(c)
    /\ Fetches(c, "retry") >= 1 => Navigations(c) = 0

\* A settled call that retried (and got 401 again), without navigating.
NavigatesAtMostOnceWitness ==
  \E c \in Slots :
    /\ Settled(c)
    /\ Fetches(c, "retry") = 1
    /\ Answered(c, "retry", 401)
    /\ Navigations(c) = 0

\* C10: once the retried request is issued, the write of the new access
\* credential precedes it in program order; the retried request has the url,
\* method, body and caller headers of the original request and carries
\* exactly the access credential the refresh returned; and a call resolved
\* after a retry returns the retry's response, whatever its status.
RetryIsOriginalWithNewCredential ==
  \A c \in Slots :
    Fetches(c, "retry") >= 1
    => LET first == The(c, "fetch", "initial")
           again == The(c, "fetch", "retry")
           w == CHOOSE i \in At(c, "setItem", "") : TRUE
           r == CHOOSE i \in At(c, "fetch", "retry") : TRUE
       IN
         /\ At(c, "setItem", "") # {}
         /\ w < r
         /\ events[c][w].key = "access"
         /\ events[c][w].value = String(data[c])
         /\ again.url = first.url
         /\ DOMAIN again.init = DOMAIN first.init
         /\ \A k \in DOMAIN again.init \ {"headers"} : again.init[k] = first.init[k]
         /\ \A k \in DOMAIN options[c] \ {"headers"} : again.init[k] = options[c][k]
         /\ DOMAIN again.init.headers = DOMAIN first.init.headers
         /\ \A h \in DOMAIN again.init.headers \ {"Authorization"} :
              again.init.headers[h] = first.init.headers[h]
         /\ again.init.headers["Authorization"] = "Bearer " \o String(data[c])
         /\ \A s \in Statuses :
              (Answered(c, "retry", s) /\ pc[c] = "resolved")
                => ret[c] = Response("retry", s)

\* A POST with a body was retried with the refreshed credential although the
\* call had started with another one, and the retry's 500 was returned.
RetryIsOriginalWitness ==
  \E c \in Slots :
    /\ pc[c] = "resolved"
    /\ Fetches(c, "retry") = 1
    /\ "body" \in DOMAIN options[c]
    /\ token[c] = Str("old")
    /\ data[c] = Str("new")
    /\ ret[c] = Response("retry", 500)
-----------------------------------------------------------------------------
\* C11: the two calls of fetchData do not coalesce their refreshes.  Each of
\* them that got 401 and found a refresh credential issues a refresh call of
\* its own; each of them that parsed an ok refresh wrote the access key
\* itself, with the value its own refresh returned; and the stored access
\* credential is the one of the call whose refresh was processed last, for
\* as long as neither login nor logout writes the key.
LastWriteWins ==
  \A c \in DataCalls :
    /\ (Answered(c, "initial", 401) /\ Truthy(refresh[c]))
         => Fetches(c, "refresh") = 1
    /\ Fetches(c, "retry") >= 1
         => /\ Writes(c) = 1
            /\ The(c, "setItem", "").key = "access"
            /\ The(c, "setItem", "").value = String(data[c])
    /\ ( /\ \A d \in DataCalls : Settled(d) /\ Fetches(d, "retry") = 1
         /\ lastWriter = [who |-> "call", id |-> c] )
         => getItem(store, "access") = Str(String(data[c]))

\* Both calls got 401, both refreshed; call 2's refresh, whose body had no
\* credential, was processed first and call 1's last, and the store holds
\* call 1's credential.
LastWriteWinsWitness ==
  /\ \A c \in DataCalls : pc[c] = "resolved" /\ Fetches(c, "refresh") = 1
  /\ data[1] = Str("new")
  /\ data[2] = Undefined
  /\ Writes(2) = 1
  /\ lastWriter = [who |-> "call", id |-> 1]
  /\ getItem(store, "access") = Str("new")

\* C12: the access credential is not kept across calls.  A call that starts
\* reads it from the store in that very step, and every protected request,
\* initial or retried, carries in its Authorization header the access
\* credential the store holds at the moment the request is issued.
RequestsCarryStoredCredential ==
  [][\A c \in Slots :
       /\ Invoked(c) => token'[c] = getItem(store, "access")
       /\ \A e \in Performed(c) :
            (e.op = "fetch" /\ e.kind \in {"initial", "retry"})
            => e.init.headers["Authorization"]
                 = "Bearer " \o String(getItem(store', "access"))]_vars

\* Call 2 started with the login's credential; call 1 refreshed meanwhile;
\* call 2 then refreshed too, got a body without credential, and its retry
\* is out with what the store holds.
RequestsCarryStoredCredentialWitness ==
  /\ token[2] = Str("old")
  /\ data[1] = Str("new")
  /\ pc[2] = "fetch2"
  /\ data[2] = Undefined
  /\ getItem(store, "access") = Str("undefined")
  /\ The(2, "fetch", "retry").init.headers["Authorization"] = "Bearer undefined"

\* C13: a step of fetchWithAuth never changes the refresh key; the only
\* change it makes to the store is to set the access key to the credential
\* just parsed from a refresh response that was ok.
OnlyAccessWrittenAfterOkRefresh ==
  [][(\E c \in Slots : Performed(c) # {})
       => /\ getItem(store', "refresh") = getItem(store, "refresh")
          /\ store' # store
               => \E c \in Slots :
                    /\ pc[c] = "json"
                    /\ Ok(refreshRes[c].status)
                    /\ store' = [store EXCEPT !["access"] = Str(String(data'[c]))]]_vars

\* A call refreshed and resolved; the refresh credential is the login's.
OnlyAccessWrittenWitness ==
  \E c \in Slots :
    /\ pc[c] = "resolved"
    /\ Writes(c) = 1
    /\ refresh[c] = Str("r1")
    /\ getItem(store, "refresh") = Str("r1")
    /\ getItem(store, "access") = data[c]
    /\ lastWriter = [who |-> "call", id |-> c]

\* C14: the store changes in three ways only.  A login response that
\* succeeded sets both keys, in the step that also navigates to the
\* dashboard; an ok refresh sets the access key and leaves the refresh key;
\* logout removes both keys, in the step that also navigates to the login
\* view.  A login that failed changes neither the store nor the route.
CredentialLifecycle ==
  [][ /\ store' # store
           => \/ /\ \E i \in Logins : LoginOver(i)
                 /\ ~getItem(store', "access").isNull
                 /\ ~getItem(store', "refresh").isNull
                 /\ location' = "/dashboard"
              \/ /\ \E c \in Slots :
                      /\ pc[c] = "json" /\ pc'[c] = "fetch2"
                      /\ getItem(store', "access") = Str(String(data'[c]))
                 /\ getItem(store', "refresh") = getItem(store, "refresh")
                 /\ location' = location
              \/ /\ location = "/dashboard"
                 /\ store' = EmptyStore
                 /\ location' = "/"
      /\ \A i \in Logins :
           (LoginOver(i) /\ loginError' = "Invalid username or password")
             => (store' = store /\ location' = location)
    ]_vars

\* After a login and a logout, a second login failed: the store is empty.
CredentialLifecycleWitness ==
  /\ lastWriter = [who |-> "logout", id |-> 0]
  /\ store = EmptyStore
  /\ location = "/"
  /\ loginError = "Invalid username or password"
-----------------------------------------------------------------------------
\* The headers of the protected requests call c has issued so far.
ProtectedHeaders(c) ==
  {events[c][i].init.headers : i \in At(c, "fetch", "initial") \cup At(c, "fetch", "retry")}

\* The credential each protected request of call c is to carry.
CarriesItsCredential(c) ==
  /\ \A i \in At(c, "fetch", "initial") :
       events[c][i].init.headers["Authorization"] = "Bearer " \o String(token[c])
  /\ \A i \in At(c, "fetch", "retry") :
       events[c][i].init.headers["Authorization"] = "Bearer " \o String(data[c])

\* Content-Type is JSON unless the caller gave one.
ContentTypeDefaults(c) ==
  \A h \in ProtectedHeaders(c) :
    h["Content-Type"] = IF "Content-Type" \in DOMAIN OptionHeaders(options[c])
                          THEN OptionHeaders(options[c])["Content-Type"]
                          ELSE "application/json"

\* C15: the initial and the retried request carry Authorization: Bearer
\* <access> together with the caller's headers: no header the caller supplied
\* is dropped or replaced, nothing else is added but Content-Type, and
\* Content-Type is application/json unless the caller supplies its own.
NoCallerHeaderReplaced ==
  \A c \in Slots :
    /\ \A h \in ProtectedHeaders(c) :
         /\ DOMAIN h = DOMAIN OptionHeaders(options[c])
                         \cup {"Content-Type", "Authorization"}
         /\ \A k \in DOMAIN OptionHeaders(options[c]) :
              h[k] = OptionHeaders(options[c])[k]
    /\ CarriesItsCredential(c)
    /\ ContentTypeDefaults(c)

\* handleLogFood's call, which supplies a Content-Type of its own, was
\* retried: both requests carry it and the bearer of their moment; and a
\* call of fetchData, which supplies no header, went out with the default.
NoCallerHeaderReplacedWitness ==
  /\ \E c \in LogCalls :
       /\ Fetches(c, "retry") = 1
       /\ "Content-Type" \in DOMAIN OptionHeaders(options[c])
       /\ The(c, "fetch", "initial").init.headers
            = ("Content-Type" :> "application/json") @@ ("Authorization" :> "Bearer old")
       /\ The(c, "fetch", "retry").init.headers
            = ("Content-Type" :> "application/json") @@ ("Authorization" :> "Bearer new")
       /\ The(c, "fetch", "retry").init.method = "POST"

\* C16: a call that found no access credential in the store has issued its
\* request all the same, and whatever navigation or refresh call it makes
\* comes after the response to that request.
NoAccessStillRequests ==
  \A c \in Slots :
    (pc[c] # "idle" /\ token[c].isNull)
    => /\ Fetches(c, "initial") = 1
       /\ events[c][1].op = "fetch" /\ events[c][1].kind = "initial"
       /\ events[c][1].url = url[c]
       /\ pc[c] = "fetch1" => Len(events[c]) = 1
       /\ \A i \in At(c, "navigate", "") \cup At(c, "fetch", "refresh") :
            \E j \in At(c, "response", "initial") : j < i

\* The dashboard was opened with an empty store and the request is out.
NoAccessStillRequestsWitness ==
  \E c \in Slots :
    /\ pc[c] = "fetch1"
    /\ token[c].isNull
    /\ getItem(store, "access").isNull
    /\ location = "/dashboard"

\* C17 (as stated): once logout has removed both credentials the store stays
\* empty until a login succeeds, whatever calls were in flight at logout.
LoggedOutStaysLoggedOut ==
  [][(lastWriter.who = "logout" /\ store = EmptyStore /\ store' # EmptyStore)
       => /\ \E i \in Logins : LoginOver(i)
          /\ ~getItem(store', "access").isNull
          /\ ~getItem(store', "refresh").isNull]_vars
-----------------------------------------------------------------------------
\* The Dashboard that is shown stays: this step mounts none.
StaysMounted ==
  /\ Shows("/dashboard")
  /\ UNCHANGED <<location, rendered, mounting>>

\* Run d of fetchData, made by the Dashboard that is shown, returns in this
\* step.
Returns(d) ==
  /\ StaysMounted
  /\ dataLive[d]
  /\ dataPc[d] # "idle"
  /\ dataPc'[d] = "idle"

\* C18: fetchData sets the entries list and today's summary together or not
\* at all.  While the Dashboard stays mounted, the two change only in the
\* step in which a run of fetchData returns, both of whose calls resolved
\* with ok responses; that step sets the list to what the entries body holds
\* and the summary to a body of the summary endpoint (which may be null, as
\* the summary was before), and leaves the error.  A run that returns after
\* one of its calls rejected or resolved with a response that is not ok
\* changes neither and sets the error.
EntriesAndSummaryAllOrNothing ==
  [][ /\ (StaysMounted /\ (foodItems' # foodItems \/ todaySummary' # todaySummary))
           => \E d \in Loads :
                /\ Returns(d)
                /\ Ok(entriesRes[d].status)
                /\ Ok(summaryRes[d].status)
                /\ foodItems' = ResultsOr(entriesData[d])
                /\ ~entriesData[d].isNull
                /\ todaySummary' \in SummaryBodies
                /\ error' = error
      /\ \A d \in Loads :
           ( /\ Returns(d)
             /\ dataPc[d] = "all"
             /\ \E c \in CallsOf(d) :
                  pc[c] = "rejected" \/ (pc[c] = "resolved" /\ ~Ok(ret[c].status)) )
           => /\ foodItems' = foodItems
              /\ todaySummary' = todaySummary
              /\ error' # ""
    ]_vars

\* Both were set, from a page object, by a run whose entries call had to
\* refresh.
EntriesAndSummaryWitness ==
  /\ Shows("/dashboard")
  /\ dataPc[1] = "idle"
  /\ foodItems = Array(<<Entry("rice", TRUE)>>)
  /\ todaySummary = Totals
  /\ lastWriter = [who |-> "call", id |-> EntriesCall(1)]
  /\ getItem(store, "access") = Str("new")

\* C19 (as stated): while Register is shown, its error message and its
\* success message are never both non-empty, whatever submissions are
\* pending; and a navigation to the login view is scheduled only by a
\* submission whose response was ok.
RegisterMessagesExclusive ==
  /\ location = RegisterRoute => ~(regError # "" /\ regSuccess # "")
  /\ \A i \in Submits : regPc[i] = "timer" => Ok(regRes[i])

\* Provided each network request it issues eventually completes, every call
\* in flight eventually completes, unless the page that made it is reloaded
\* first.
CallsTerminate ==
  \A c \in Slots : InFlight(c) ~> (Settled(c) \/ pc[c] = "idle")

\* At no time has a call issued more than three requests.
AtMostThreeRequests ==
  \A c \in Slots :
    Fetches(c, "initial") + Fetches(c, "refresh") + Fetches(c, "retry") <= 3

\* A call that completed resolved with a response or rejected with a
\* transport failure.
ResponseOrTransportFailure ==
  \A c \in Slots :
    /\ pc[c] = "resolved" => ret[c] # NoResponse
    /\ pc[c] = "rejected"
         => err[c] \in {FetchError(k) : k \in {"initial", "refresh", "retry"}}

\* C20 (as stated): every call eventually completes, resolving with a
\* response or rejecting with a transport failure, provided each network
\* request it issues eventually completes; and it waits on nothing but its
\* own at most three network requests.
EveryCallCompletes ==
  /\ CallsTerminate
  /\ []AtMostThreeRequests
  /\ []ResponseOrTransportFailure
====
